---- MODULE Spec2Model ----
(***************************************************************************)
(* Overlay orchestration of the pause-menu desktop app: the global hotkey  *)
(* handler (lib.rs), show_overlay / hide_overlay (commands/overlay.rs),    *)
(* the shortcut registry (commands/shortcuts.rs), the per-monitor window   *)
(* manager (services/multi_monitor.rs), the startup window creation task   *)
(* and the OAuth flow's hiding and re-showing of windows                   *)
(* (commands/calendar.rs); the window tracker                              *)
(* (services/window_tracker.rs), the focus service                         *)
(* (services/focus_service.rs) and the notification blocker                *)
(* (utils/notification_suppression.rs).                                    *)
(*                                                                         *)
(* Granularity.  The hotkey handler runs on one callback thread and never  *)
(* suspends: each handler invocation is one step.  A spawned task is cut   *)
(* into steps at its suspension points (thread::sleep, tokio sleep, the    *)
(* await on the focus-service lock); everything between two suspension     *)
(* points is one step.                                                     *)
(*                                                                         *)
(* Environment.  A window call on an existing window takes effect.  A call *)
(* whose Result the code propagates with `?` (the main-window fallback of  *)
(* show_overlay) has both outcomes.  Registering a shortcut that is        *)
(* already registered fails, registering a free one succeeds.  A spawned   *)
(* task may panic at any step (println! on a closed stdout, unwrap on a    *)
(* poisoned mutex); the panic unwinds the task only.                       *)
(***************************************************************************)
EXTENDS Integers, Sequences, FiniteSets, TLC

\* Number of task slots of the async runtime that the model follows.
MaxTasks == 2
\* Number of monitors the OS may report.
MaxMonitors == 2
\* Number of environment inputs (hotkey events, UI commands, OAuth flows,
\* panics) a behaviour may contain.
MaxInputs == 3
\* `for i in 0..10` of the window scans.
ScanLimit == 10
\* Number of window handles the OS may hand out.
MaxHandles == 3
\* Number of monitors in the specification of the window manager.
MaxScreens == 3
\* Length of the label list handed to a function of the window manager.
MaxLabels == 2
\* Number of window handles in the specification of the tracker's snapshots.
MaxTracked == 2
\* The time of a snapshot call; cached entries carry earlier times.
MaxClock == 2
\* Number of commands of the focus service that a behaviour may contain.
MaxCalls == 3
\* Number of calls of the notification blocker's two functions that a
\* behaviour may contain.
MaxBlockerCalls == 5
\* Longest focus session and longest temporary mute, in seconds.
MaxSeconds == 2
\* Last instant of the wall clock, in ticks.
MaxTime == 4
\* Ticks of the wall clock per second: Utc::now() is finer than the whole
\* seconds of num_seconds() (focus_service.rs:1194-1195).
TickRes == 2

VARIABLES
    WINDOW_OPERATION_IN_PROGRESS, \* lib.rs:14
    OVERLAY_IS_VISIBLE,           \* lib.rs:17
    OAUTH_IN_PROGRESS,            \* calendar.rs:7
    windows,                      \* labels of the windows that exist
    visible,                      \* OS visibility of each window
    window_labels,                \* managed Mutex<Vec<String>>
    registered,                   \* shortcuts held by the global-shortcut plugin
    SYSTEM_SHORTCUT_BLOCKERS,     \* shortcuts.rs:181
    NUMBER_KEY_SHORTCUTS,         \* shortcuts.rs:5
    tasks,                        \* spawned show/hide tasks, by slot
    setup,                        \* position of the startup window-creation task
    emitted,                      \* event emitted to the UI by the last step
    last,                         \* what the last step did
    lastToggleOp,                 \* the operation the last acquiring toggle press dispatched
    inputs,                       \* number of environment inputs so far
    os_taken,                     \* shortcuts held by other processes
    monitors,                     \* rcMonitor of each monitor the OS reports
    geometry,                     \* position and size of each window
    cached_windows,               \* window_tracker.rs:20, the handles cached
    os_windows,                   \* handles EnumWindows reports
    tracked,                      \* the last track_window_changes call
    dispatched,                   \* the last classification by the handler
    call,                         \* a function applied to inputs of its own
    focus_service,                \* focus_service.rs:188-194, the shared fields
    focus_timers,                 \* the timer tasks the focus service spawned
    focus_env,                    \* wall clock and the last focus command
    blocker                       \* notification_suppression.rs:1087 and its threads

\* The overlay orchestration.
overlayVars == <<WINDOW_OPERATION_IN_PROGRESS, OVERLAY_IS_VISIBLE,
                 OAUTH_IN_PROGRESS, windows, visible, window_labels, registered,
                 SYSTEM_SHORTCUT_BLOCKERS, NUMBER_KEY_SHORTCUTS, tasks, setup,
                 emitted, last, lastToggleOp, inputs>>

\* The state the overlay's show/hide actions never touch.
\* The focus service and the notification blocker.
focusVars == <<focus_service, focus_timers, focus_env, blocker>>

otherVars == <<os_taken, monitors, geometry, cached_windows, os_windows,
               tracked, dispatched, call, focusVars>>

\* Everything outside the focus service and the notification blocker.
shellVars == <<overlayVars, os_taken, monitors, geometry, cached_windows,
               os_windows, tracked, dispatched, call>>

vars == <<overlayVars, otherVars>>

Slots == 1..MaxTasks

MonitorLabel(i) == "overlay_monitor_" \o ToString(i)
MonitorLabels == {MonitorLabel(i) : i \in 0..(MaxMonitors - 1)}
AllLabels == MonitorLabels \cup {"main"}

\* l.starts_with("overlay_monitor_")
IsMonitorLabel(l) == l # "main"
HasMonitorLabel(lbls) == \E k \in 1..Len(lbls) : IsMonitorLabel(lbls[k])
Contains(lbls, l) == \E k \in 1..Len(lbls) : lbls[k] = l

\* The labels overlay_monitor_0 .. overlay_monitor_9 in index order.
ScanLabels == [k \in 1..ScanLimit |-> MonitorLabel(k - 1)]
\* for i in 0..10 { if app.get_webview_window(label).is_some() { push } }
ScanMonitorWindows(wins) == SelectSeq(ScanLabels, LAMBDA l : l \in wins)

\* The labels create_monitor_windows returns when creation succeeds for the
\* monitors with index in S.
CreatedLabels(S) ==
    SelectSeq([k \in 1..MaxMonitors |-> MonitorLabel(k - 1)],
              LAMBDA l : \E i \in S : l = MonitorLabel(i))

\* window.show() / window.hide() on the window labelled l, when it exists.
ShowWindow(vis, wins, l) == IF l \in wins THEN [vis EXCEPT ![l] = TRUE] ELSE vis
HideWindow(vis, wins, l) == IF l \in wins THEN [vis EXCEPT ![l] = FALSE] ELSE vis

\* MultiMonitorManager::is_any_window_visible
is_any_window_visible(vis, wins, lbls) ==
    \E k \in 1..Len(lbls) : lbls[k] \in wins /\ vis[lbls[k]]

\* Some overlay window or the main window is visible.
ActualVisible == \E l \in windows : visible[l]

\* The overlay is shown the way a completed show_overlay leaves it.
AlreadyShown ==
    IF \E l \in windows : IsMonitorLabel(l)
    THEN /\ \A l \in windows : IsMonitorLabel(l) => visible[l]
         /\ ~visible["main"]
    ELSE visible["main"]

----------------------------------------------------------------------------
(* The shortcut registry.  The four arrow keys, the seven digits and the   *)
(* eleven blocked combinations are registered and unregistered together,   *)
(* so each family is one element.                                          *)

PrimaryToggle == "Ctrl+Space"

\* lib.rs:407-411
shortcuts_to_try == <<"Ctrl+Space", "Win+Space", "Win+O">>
ToggleShortcuts == {shortcuts_to_try[k] : k \in 1..Len(shortcuts_to_try)}

\* lib.rs:416-432 from candidate k on: the candidate is registered unless
\* another process holds it, and the loop breaks at the first success.
RECURSIVE TryShortcuts(_, _)
TryShortcuts(k, taken) ==
    IF k > Len(shortcuts_to_try) THEN {}
    ELSE IF shortcuts_to_try[k] \notin taken THEN {shortcuts_to_try[k]}
    ELSE TryShortcuts(k + 1, taken)

\* A loop without its break: every candidate the OS accepts is registered.
RegisterToggle_NoBreak(taken) == ToggleShortcuts \ taken

\* The toggle shortcuts setup registers when `taken` are held elsewhere.
RegisterToggle(taken) == TryShortcuts(1, taken)
BlockerShortcuts == {"Blockers"}
NumberShortcuts == {"Alt+Digit"}

RegState == [reg |-> registered,
             blk |-> SYSTEM_SHORTCUT_BLOCKERS,
             num |-> NUMBER_KEY_SHORTCUTS]

block_windows_shortcuts(R) ==
    LET reg0 == R.reg \ R.blk
        ok   == BlockerShortcuts \ reg0
    IN  [R EXCEPT !.reg = reg0 \cup ok, !.blk = ok]

unblock_windows_shortcuts(R) ==
    [R EXCEPT !.reg = R.reg \ R.blk, !.blk = {}]

register_escape_shortcut(R) ==
    IF "Ctrl+Escape" \notin R.reg THEN [R EXCEPT !.reg = R.reg \cup {"Ctrl+Escape"}]
    ELSE IF "Escape" \notin R.reg THEN [R EXCEPT !.reg = R.reg \cup {"Escape"}]
    ELSE R

unregister_escape_shortcut(R) ==
    [R EXCEPT !.reg = R.reg \ {"Ctrl+Escape", "Escape"}]

register_arrow_key_shortcuts(R) ==
    IF "Alt+Arrow" \notin R.reg THEN [R EXCEPT !.reg = R.reg \cup {"Alt+Arrow"}]
    ELSE IF "Arrow" \notin R.reg THEN [R EXCEPT !.reg = R.reg \cup {"Arrow"}]
    ELSE R

unregister_arrow_key_shortcuts(R) ==
    IF "Alt+Arrow" \in R.reg THEN [R EXCEPT !.reg = R.reg \ {"Alt+Arrow"}]
    ELSE [R EXCEPT !.reg = R.reg \ {"Arrow"}]

register_number_key_shortcuts(R) ==
    LET reg0 == R.reg \ R.num
        ok   == NumberShortcuts \ reg0
    IN  [R EXCEPT !.reg = reg0 \cup ok, !.num = ok]

unregister_number_key_shortcuts(R) ==
    [R EXCEPT !.reg = R.reg \ R.num, !.num = {}]

\* show_overlay, steps 1 to 4.
RegisterOverlayShortcuts(R) ==
    register_number_key_shortcuts(
        register_arrow_key_shortcuts(
            register_escape_shortcut(
                block_windows_shortcuts(R))))

\* hide_overlay, the four unregistrations.
UnregisterOverlayShortcuts(R) ==
    unregister_number_key_shortcuts(
        unregister_arrow_key_shortcuts(
            unregister_escape_shortcut(
                unblock_windows_shortcuts(R))))

----------------------------------------------------------------------------
(* Records.                                                                *)

NoTask == [kind |-> "none", origin |-> "none", pc |-> "none", i |-> 0,
           lbls |-> <<>>, shownAtCall |-> FALSE,
           flagBefore |-> FALSE, regBefore |-> {}]

NewTask(kind, origin, fb, rb) ==
    [kind |-> kind, origin |-> origin, pc |-> "start", i |-> 0,
     lbls |-> <<>>, shownAtCall |-> FALSE, flagBefore |-> fb, regBefore |-> rb]

HasFreeSlot == \E t \in Slots : tasks[t].kind = "none"
FreeSlot == CHOOSE t \in Slots :
              /\ tasks[t].kind = "none"
              /\ \A u \in Slots : tasks[u].kind = "none" => t <= u

\* tauri::async_runtime::spawn
Spawn(task) == [tasks EXCEPT ![FreeSlot] = task]

NoLast == [act |-> "init", origin |-> "none", path |-> "none",
           result |-> "none", calls |-> 0, regAdded |-> FALSE,
           shownAtCall |-> FALSE, flagBefore |-> FALSE, regBefore |-> {}]

Did(act) == [NoLast EXCEPT !.act = act]

\* A step of the task in slot t that issued `calls` window-mutating calls.
TaskDid(act, t, path, calls, regAdded, shown) ==
    [NoLast EXCEPT !.act = act, !.origin = tasks[t].origin, !.path = path,
                   !.calls = calls, !.regAdded = regAdded, !.shownAtCall = shown]

\* The step in which show_overlay or hide_overlay of the task in slot t returns.
TaskReturned(act, t, path, ok, calls, regAdded, shown) ==
    [act |-> act, origin |-> tasks[t].origin, path |-> path,
     result |-> IF ok THEN "Ok" ELSE "Err", calls |-> calls,
     regAdded |-> regAdded, shownAtCall |-> shown,
     flagBefore |-> tasks[t].flagBefore, regBefore |-> tasks[t].regBefore]

\* A window whose position and size were never set.
NoGeometry == [x |-> 0, y |-> 0, width |-> 0, height |-> 0]

\* No track_window_changes call yet.
NoTracked == [result |-> "none", previous |-> {}, current |-> {},
              opened |-> {}, closed |-> {}]

\* No shortcut event classified yet.
NoCall == [fn |-> "none", input |-> <<>>, out |-> <<>>]

NoDispatch == [mods |-> {}, key |-> "none", state |-> "none", branch |-> "none",
               payload |-> "none"]

----------------------------------------------------------------------------
\* The focus service (services/focus_service.rs) and the notification
\* blocker (utils/notification_suppression.rs).  A command of the focus
\* service runs under the service's outer mutex (commands/focus.rs), so two
\* commands never overlap; the timer tasks a command spawns share the
\* service's fields through clone_for_timer and run without that mutex.
CallIds == 1..MaxCalls
ThreadIds == 1..MaxBlockerCalls
Durations == 1..MaxSeconds
\* Option::None of current_session, of a duration and of the stored end time.
NoSession == [id |-> 0, is_active |-> FALSE, remaining_seconds |-> 0]
NoDuration == 0
NoEndTime == 0 - 1
\* A slot no timer task occupies.
NoTimer == [pc |-> "none", duration |-> 0, elapsed |-> 0]
NoMute == [pc |-> "none", end_time |-> NoEndTime, wake |-> 0, superseded |-> FALSE]

\* FocusService::new and the initial BLOCKER_RUNNING: no session, nothing
\* muted, no timer task and no blocker thread.
FocusAtRest ==
    /\ focus_service = [current_session |-> NoSession,
                        notification_state |-> FALSE,
                        temporary_mute_end_time |-> NoEndTime]
    /\ focus_timers = [session |-> [k \in CallIds |-> NoTimer],
                       mute |-> [k \in CallIds |-> NoMute]]
    /\ focus_env = [now |-> 0, calls |-> 0, op |-> "none", result |-> "none"]
    /\ blocker = [BLOCKER_RUNNING |-> FALSE,
                  threads |-> [k \in ThreadIds |-> "none"],
                  calls |-> 0]


\* The components the overlay actions never touch, at rest: no foreign
\* shortcut, a fresh WindowTracker (window_tracker.rs:26-32).
OtherInit ==
    /\ os_taken = {}
    /\ monitors = <<>>
    /\ geometry = [l \in AllLabels |-> NoGeometry]
    /\ cached_windows = {}
    /\ os_windows = {}
    /\ tracked = NoTracked
    /\ dispatched = NoDispatch
    /\ call = NoCall
    /\ FocusAtRest

\* The overlay after setup registered the first toggle candidate, hid the
\* main window and spawned the startup task.
OverlayInit ==
    /\ WINDOW_OPERATION_IN_PROGRESS = FALSE
    /\ OVERLAY_IS_VISIBLE = FALSE
    /\ OAUTH_IN_PROGRESS = FALSE
    /\ windows = {"main"}
    /\ visible = [l \in AllLabels |-> FALSE]
    /\ window_labels = <<>>
    /\ registered = {PrimaryToggle}
    /\ SYSTEM_SHORTCUT_BLOCKERS = {}
    /\ NUMBER_KEY_SHORTCUTS = {}
    /\ tasks = [t \in Slots |-> NoTask]
    /\ setup = "spawned"
    /\ emitted = "none"
    /\ last = NoLast
    /\ lastToggleOp = "none"
    /\ inputs = 0

\* The overlay shown on the main window by a first toggle press, before the
\* startup task ran: the state a toggle press, ShowStart and its Ok return
\* lead to from OverlayInit.
OverlayShownInit ==
    /\ WINDOW_OPERATION_IN_PROGRESS = FALSE
    /\ OVERLAY_IS_VISIBLE = TRUE
    /\ OAUTH_IN_PROGRESS = FALSE
    /\ windows = {"main"}
    /\ visible = [l \in AllLabels |-> l = "main"]
    /\ window_labels = <<>>
    /\ LET R == RegisterOverlayShortcuts([reg |-> {PrimaryToggle},
                                          blk |-> {}, num |-> {}])
       IN  /\ registered = R.reg
           /\ SYSTEM_SHORTCUT_BLOCKERS = R.blk
           /\ NUMBER_KEY_SHORTCUTS = R.num
    /\ tasks = [t \in Slots |-> NoTask]
    /\ setup = "spawned"
    /\ emitted = "none"
    /\ last = NoLast
    /\ lastToggleOp = "show"
    /\ inputs = 0

Init == OverlayInit /\ OtherInit

----------------------------------------------------------------------------
(* The hotkey handler (lib.rs:82-398).  One step per invocation.           *)

\* The resolution without its last tier: the toggle flag is never consulted.
ResolveVisible_NoFlag(lbls, wins, vis, flag) ==
    LET toCheck == IF lbls = <<>> THEN ScanMonitorWindows(wins) ELSE lbls
        v1 == IF toCheck # <<>> THEN is_any_window_visible(vis, wins, toCheck)
              ELSE FALSE
    IN  IF ~v1 THEN (IF "main" \in wins THEN vis["main"] ELSE v1) ELSE v1

\* lib.rs:239-285: labels from state, else a scan; then the main window;
\* then the toggle flag.
ResolveVisible(lbls, wins, vis, flag) ==
    LET toCheck == IF lbls = <<>> THEN ScanMonitorWindows(wins) ELSE lbls
        v1 == IF toCheck # <<>> THEN is_any_window_visible(vis, wins, toCheck)
              ELSE FALSE
        v2 == IF ~v1 THEN (IF "main" \in wins THEN vis["main"] ELSE v1) ELSE v1
    IN  IF ~v2 /\ flag THEN TRUE ELSE v2

\* lib.rs:95-104 and 134-143: the check of the arrow and Escape branches.
LabelsVisible == is_any_window_visible(visible, windows, window_labels)

\* A swap whose result is ignored: the press never sees the flag set.
swap_NeverSet(flag) == FALSE

\* lib.rs:229: WINDOW_OPERATION_IN_PROGRESS.swap(true) returns the old value.
swap(flag) == flag

\* lib.rs:228-379, event.state == Pressed, a shortcut no earlier branch took.
TogglePressedBranch ==
    /\ IF swap(WINDOW_OPERATION_IN_PROGRESS)
       THEN /\ last' = Did("toggle_dropped")
            /\ emitted' = "none"
            /\ UNCHANGED <<WINDOW_OPERATION_IN_PROGRESS, OVERLAY_IS_VISIBLE,
                           OAUTH_IN_PROGRESS, windows, visible, window_labels,
                           registered, SYSTEM_SHORTCUT_BLOCKERS,
                           NUMBER_KEY_SHORTCUTS, tasks, setup, lastToggleOp>>
       ELSE /\ HasFreeSlot
            /\ WINDOW_OPERATION_IN_PROGRESS' = TRUE
            /\ LET is_visible == ResolveVisible(window_labels, windows, visible,
                                                OVERLAY_IS_VISIBLE)
                   kind == IF is_visible THEN "hide" ELSE "show"
               IN  /\ OVERLAY_IS_VISIBLE' = ~is_visible
                   /\ tasks' = Spawn(NewTask(kind, "toggle", OVERLAY_IS_VISIBLE,
                                             registered))
                   /\ lastToggleOp' = kind
                   /\ last' = Did(IF is_visible THEN "toggle_hide" ELSE "toggle_show")
            /\ emitted' = "none"
            /\ UNCHANGED <<OAUTH_IN_PROGRESS, windows, visible, window_labels,
                           registered, SYSTEM_SHORTCUT_BLOCKERS,
                           NUMBER_KEY_SHORTCUTS, setup>>

\* The press or release of a registered shortcut runs the branch.
HandleTogglePressed ==
    /\ inputs < MaxInputs
    /\ inputs' = inputs + 1
    /\ UNCHANGED otherVars
    /\ registered \cap ToggleShortcuts # {}
    /\ TogglePressedBranch

\* Any registered shortcut, event.state == Released: no branch before
\* lib.rs:229 matches; the swap either finds the flag set and returns, or
\* sets it and lib.rs:382/396 clear it again before the handler returns.
ReleasedBranch ==
    /\ last' = Did("released")
    /\ emitted' = "none"
    /\ WINDOW_OPERATION_IN_PROGRESS' =
          (IF WINDOW_OPERATION_IN_PROGRESS THEN TRUE ELSE FALSE)
    /\ UNCHANGED <<OVERLAY_IS_VISIBLE, OAUTH_IN_PROGRESS, windows, visible,
                   window_labels, registered, SYSTEM_SHORTCUT_BLOCKERS,
                   NUMBER_KEY_SHORTCUTS, tasks, setup, lastToggleOp>>

\* The press or release of a registered shortcut runs the branch.
HandleReleased ==
    /\ inputs < MaxInputs
    /\ inputs' = inputs + 1
    /\ UNCHANGED otherVars
    /\ registered # {}
    /\ ReleasedBranch

\* lib.rs:86-125
ArrowBranch ==
    /\ emitted' = IF LabelsVisible THEN "arrow-key-pressed" ELSE "none"
    /\ WINDOW_OPERATION_IN_PROGRESS' = FALSE
    /\ last' = Did("arrow")
    /\ UNCHANGED <<OVERLAY_IS_VISIBLE, OAUTH_IN_PROGRESS, windows, visible,
                   window_labels, registered, SYSTEM_SHORTCUT_BLOCKERS,
                   NUMBER_KEY_SHORTCUTS, tasks, setup, lastToggleOp>>

\* The press or release of a registered shortcut runs the branch.
HandleArrowPressed ==
    /\ inputs < MaxInputs
    /\ inputs' = inputs + 1
    /\ UNCHANGED otherVars
    /\ registered \cap {"Alt+Arrow", "Arrow"} # {}
    /\ ArrowBranch

\* lib.rs:128-162
EscapeBranch ==
    /\ IF LabelsVisible
       THEN /\ HasFreeSlot
            /\ tasks' = Spawn(NewTask("hide", "escape", FALSE, {}))
            /\ last' = Did("escape_hide")
            /\ UNCHANGED WINDOW_OPERATION_IN_PROGRESS
       ELSE /\ WINDOW_OPERATION_IN_PROGRESS' = FALSE
            /\ last' = Did("escape_ignored")
            /\ UNCHANGED tasks
    /\ emitted' = "none"
    /\ UNCHANGED <<OVERLAY_IS_VISIBLE, OAUTH_IN_PROGRESS, windows, visible,
                   window_labels, registered, SYSTEM_SHORTCUT_BLOCKERS,
                   NUMBER_KEY_SHORTCUTS, setup, lastToggleOp>>

\* The press or release of a registered shortcut runs the branch.
HandleEscapePressed ==
    /\ inputs < MaxInputs
    /\ inputs' = inputs + 1
    /\ UNCHANGED otherVars
    /\ registered \cap {"Ctrl+Escape", "Escape"} # {}
    /\ EscapeBranch

\* lib.rs:165-191
NumberBranch ==
    /\ emitted' = "number-key-pressed"
    /\ WINDOW_OPERATION_IN_PROGRESS' = FALSE
    /\ last' = Did("number")
    /\ UNCHANGED <<OVERLAY_IS_VISIBLE, OAUTH_IN_PROGRESS, windows, visible,
                   window_labels, registered, SYSTEM_SHORTCUT_BLOCKERS,
                   NUMBER_KEY_SHORTCUTS, tasks, setup, lastToggleOp>>

\* The press or release of a registered shortcut runs the branch.
HandleNumberPressed ==
    /\ inputs < MaxInputs
    /\ inputs' = inputs + 1
    /\ UNCHANGED otherVars
    /\ registered \cap NumberShortcuts # {}
    /\ NumberBranch

\* A block branch that treats the press as a toggle of the flag.
BlockedBranch_Toggles ==
    /\ emitted' = "none"
    /\ WINDOW_OPERATION_IN_PROGRESS' = FALSE
    /\ OVERLAY_IS_VISIBLE' = ~OVERLAY_IS_VISIBLE
    /\ last' = Did("blocked")
    /\ UNCHANGED <<OAUTH_IN_PROGRESS, windows, visible, window_labels,
                   registered, SYSTEM_SHORTCUT_BLOCKERS, NUMBER_KEY_SHORTCUTS,
                   tasks, setup, lastToggleOp>>

\* lib.rs:195-219
BlockedBranch ==
    /\ emitted' = "none"
    /\ WINDOW_OPERATION_IN_PROGRESS' = FALSE
    /\ last' = Did("blocked")
    /\ UNCHANGED <<OVERLAY_IS_VISIBLE, OAUTH_IN_PROGRESS, windows, visible,
                   window_labels, registered, SYSTEM_SHORTCUT_BLOCKERS,
                   NUMBER_KEY_SHORTCUTS, tasks, setup, lastToggleOp>>

\* The press or release of a registered shortcut runs the branch.
HandleBlockedPressed ==
    /\ inputs < MaxInputs
    /\ inputs' = inputs + 1
    /\ UNCHANGED otherVars
    /\ registered \cap BlockerShortcuts # {}
    /\ BlockedBranch

----------------------------------------------------------------------------
(* The show_overlay and hide_overlay commands invoked by the UI.           *)

CmdShowOverlay ==
    /\ inputs < MaxInputs
    /\ inputs' = inputs + 1
    /\ UNCHANGED otherVars
    /\ HasFreeSlot
    /\ tasks' = Spawn(NewTask("show", "command", FALSE, {}))
    /\ last' = Did("cmd_show")
    /\ emitted' = "none"
    /\ UNCHANGED <<WINDOW_OPERATION_IN_PROGRESS, OVERLAY_IS_VISIBLE,
                   OAUTH_IN_PROGRESS, windows, visible, window_labels,
                   registered, SYSTEM_SHORTCUT_BLOCKERS, NUMBER_KEY_SHORTCUTS,
                   setup, lastToggleOp>>

CmdHideOverlay ==
    /\ inputs < MaxInputs
    /\ inputs' = inputs + 1
    /\ UNCHANGED otherVars
    /\ HasFreeSlot
    /\ tasks' = Spawn(NewTask("hide", "command", FALSE, {}))
    /\ last' = Did("cmd_hide")
    /\ emitted' = "none"
    /\ UNCHANGED <<WINDOW_OPERATION_IN_PROGRESS, OVERLAY_IS_VISIBLE,
                   OAUTH_IN_PROGRESS, windows, visible, window_labels,
                   registered, SYSTEM_SHORTCUT_BLOCKERS, NUMBER_KEY_SHORTCUTS,
                   setup, lastToggleOp>>

----------------------------------------------------------------------------
(* show_overlay (overlay.rs:11-230) with its caller's result handling:     *)
(* lib.rs:341-377 for a task spawned by the toggle, none for the command.  *)

\* Index of the first label at or after k that names an existing window
\* (a label without a window is skipped without a sleep), else Len + 1.
NextExisting(lbls, wins, k) ==
    IF \E j \in k..Len(lbls) : lbls[j] \in wins
    THEN CHOOSE j \in k..Len(lbls) :
            /\ lbls[j] \in wins
            /\ \A m \in k..Len(lbls) : lbls[m] \in wins => j <= m
    ELSE Len(lbls) + 1

\* A show_overlay that never hides the main window.
ForceHideMain_Noop(vis, wins) == vis

\* overlay.rs:93-109, 119, 148-155: window.hide() on the main window.
ForceHideMain(vis, wins) == HideWindow(vis, wins, "main")

\* A fallback that configures the main window and never shows it.
FallbackShowMain_Skip(vis, wins) == vis

\* overlay.rs:226: window.show() of the single-window fallback.
FallbackShowMain(vis, wins) == ShowWindow(vis, wins, "main")

\* multi_monitor.rs:207-213: the loop without positioning and verification.
ShowEvery(vis, wins, lbls) ==
    [l \in AllLabels |-> IF l \in wins /\ Contains(lbls, l) THEN TRUE ELSE vis[l]]

\* A show arm that emits whatever show_overlay returned.
ShowEmits_IgnoresResult(byToggle, ok) ==
    IF byToggle THEN "shortcut-triggered:true" ELSE "none"

\* lib.rs:342-346: only the toggle's task emits, and only in its Ok arm.
ShowEmits(byToggle, ok) ==
    IF byToggle /\ ok THEN "shortcut-triggered:true" ELSE "none"

\* show_overlay returns; the spawned task's match arms run (lib.rs:342-376).
ShowReturn(t, path, ok, calls, regAdded, shown) ==
    LET byToggle == tasks[t].origin = "toggle" IN
    /\ tasks' = [tasks EXCEPT ![t] = NoTask]
    /\ WINDOW_OPERATION_IN_PROGRESS' =
          (IF byToggle THEN FALSE ELSE WINDOW_OPERATION_IN_PROGRESS)
    /\ OVERLAY_IS_VISIBLE' =
          (IF byToggle /\ ~ok THEN FALSE ELSE OVERLAY_IS_VISIBLE)
    /\ emitted' = ShowEmits(byToggle, ok)
    /\ lastToggleOp' = IF byToggle /\ ~ok /\ lastToggleOp = "show"
                       THEN "show_err" ELSE lastToggleOp
    /\ last' = TaskReturned("show_return", t, path, ok, calls, regAdded, shown)

\* overlay.rs:12-114 (multi-monitor path, up to the first sleep) or
\* overlay.rs:12-229 (main-window fallback, which never sleeps).
ShowStart(t) ==
    /\ UNCHANGED <<inputs, otherVars>>
    /\ tasks[t].kind = "show" /\ tasks[t].pc = "start"
    /\ LET R      == RegisterOverlayShortcuts(RegState)
           added  == R.reg \ registered # {}
           rescan == window_labels = <<>> \/ ~HasMonitorLabel(window_labels)
           final  == IF rescan THEN ScanMonitorWindows(windows) ELSE window_labels
           multi  == final # <<>> /\ HasMonitorLabel(final)
           shown  == AlreadyShown
       IN  /\ registered' = R.reg
           /\ SYSTEM_SHORTCUT_BLOCKERS' = R.blk
           /\ NUMBER_KEY_SHORTCUTS' = R.num
           /\ window_labels' = IF rescan /\ final # <<>> THEN final ELSE window_labels
           /\ IF multi
              THEN /\ visible' = ForceHideMain(visible, windows)
                   /\ tasks' = [tasks EXCEPT ![t].pc = "sleep_main",
                                             ![t].lbls = final,
                                             ![t].shownAtCall = shown]
                   /\ last' = TaskDid("show_step", t, "multi", 2, added, shown)
                   /\ emitted' = "none"
                   /\ UNCHANGED <<WINDOW_OPERATION_IN_PROGRESS, OVERLAY_IS_VISIBLE,
                                  lastToggleOp>>
              ELSE \E ok \in BOOLEAN :
                   /\ visible' = IF ok THEN FallbackShowMain(visible, windows)
                                 ELSE visible
                   /\ ShowReturn(t, "main", ok, IF ok THEN 3 ELSE 1, added, shown)
    /\ UNCHANGED <<OAUTH_IN_PROGRESS, windows, setup>>

\* The end of show_all_windows and overlay.rs:147-156, entered with the
\* visibilities vis: re-check the main window, force-hide it, return Ok.
ShowFinish(t, vis, calls) ==
    /\ visible' = ForceHideMain(vis, windows)
    /\ ShowReturn(t, "multi", TRUE, calls + (IF vis["main"] THEN 2 ELSE 0),
                  FALSE, tasks[t].shownAtCall)

\* multi_monitor.rs:109-184 for the next existing window at or after k,
\* entered with the visibilities vis; the step ends in the 100 ms sleep.
ShowFrom(t, vis, k, calls) ==
    LET lbls == tasks[t].lbls
        j    == NextExisting(lbls, windows, k)
    IN  IF j <= Len(lbls)
        THEN /\ visible' = ShowWindow(vis, windows, lbls[j])
             /\ tasks' = [tasks EXCEPT ![t].pc = "sleep_win", ![t].i = j]
             /\ last' = TaskDid("show_step", t, "multi", calls + 7, FALSE,
                                tasks[t].shownAtCall)
             /\ emitted' = "none"
             /\ UNCHANGED <<WINDOW_OPERATION_IN_PROGRESS, OVERLAY_IS_VISIBLE,
                            lastToggleOp>>
        ELSE ShowFinish(t, vis, calls)

\* overlay.rs:115-137 and the start of show_all_windows.
ShowAfterMainSleep(t) ==
    /\ UNCHANGED <<inputs, otherVars>>
    /\ tasks[t].kind = "show" /\ tasks[t].pc = "sleep_main"
    /\ LET vis1  == ForceHideMain(visible, windows)
           calls == IF visible["main"] THEN 1 ELSE 0
       IN  \E monitorsOk \in BOOLEAN :
             IF monitorsOk
             THEN ShowFrom(t, vis1, 1, calls)
             ELSE ShowFinish(t, ShowEvery(vis1, windows, tasks[t].lbls),
                             calls + 3 * Len(tasks[t].lbls))
    /\ UNCHANGED <<OAUTH_IN_PROGRESS, windows, window_labels, registered,
                   SYSTEM_SHORTCUT_BLOCKERS, NUMBER_KEY_SHORTCUTS, setup>>

\* multi_monitor.rs:185-197: the verification of window i and its one retry,
\* then the next window, or the end of show_overlay.
ShowAfterWinSleep(t) ==
    /\ UNCHANGED <<inputs, otherVars>>
    /\ tasks[t].kind = "show" /\ tasks[t].pc = "sleep_win"
    /\ LET l     == tasks[t].lbls[tasks[t].i]
           retry == ~visible[l]
           vis1  == IF retry THEN ShowWindow(visible, windows, l) ELSE visible
       IN  ShowFrom(t, vis1, tasks[t].i + 1, IF retry THEN 1 ELSE 0)
    /\ UNCHANGED <<OAUTH_IN_PROGRESS, windows, window_labels, registered,
                   SYSTEM_SHORTCUT_BLOCKERS, NUMBER_KEY_SHORTCUTS, setup>>

----------------------------------------------------------------------------
(* hide_overlay (overlay.rs:233-355) with its caller's result handling:    *)
(* lib.rs:298-326 for the toggle, lib.rs:150-155 for Escape.               *)

\* overlay.rs:267-289: the labels of the state, completed by a scan when
\* they hold no monitor window.
HideLabels(lbls, wins) ==
    IF lbls = <<>> \/ ~HasMonitorLabel(lbls)
    THEN lbls \o SelectSeq(ScanMonitorWindows(wins), LAMBDA l : ~Contains(lbls, l))
    ELSE lbls

\* overlay.rs:298-320: every labelled window still visible is hidden again.
HideEvery(vis, wins, lbls) ==
    [l \in AllLabels |-> IF l \in wins /\ Contains(lbls, l) THEN FALSE ELSE vis[l]]

\* overlay.rs:324-342: hide the main window; the step ends in the 100 ms sleep.
HideMainThenSleep(t, vis, calls) ==
    /\ visible' = HideWindow(vis, windows, "main")
    /\ tasks' = [tasks EXCEPT ![t].pc = "sleep_main"]
    /\ last' = TaskDid("hide_step", t, "none", calls + 2, FALSE, FALSE)

\* multi_monitor.rs:236-258 for the next existing window at or after k; the
\* step ends in the 50 ms sleep, or after the last window in the 200 ms
\* sleep of overlay.rs:297.
HideFrom(t, vis, lbls, k, calls) ==
    LET j == NextExisting(lbls, windows, k)
    IN  IF j <= Len(lbls)
        THEN /\ visible' = HideWindow(vis, windows, lbls[j])
             /\ tasks' = [tasks EXCEPT ![t].pc = "sleep_hide", ![t].i = j,
                                       ![t].lbls = lbls]
             /\ last' = TaskDid("hide_step", t, "none", calls + 2, FALSE, FALSE)
        ELSE /\ visible' = vis
             /\ tasks' = [tasks EXCEPT ![t].pc = "sleep_verify", ![t].lbls = lbls]
             /\ last' = TaskDid("hide_step", t, "none", calls, FALSE, FALSE)

\* overlay.rs:234-294, up to the first sleep.
HideStart(t) ==
    /\ UNCHANGED <<inputs, otherVars>>
    /\ tasks[t].kind = "hide" /\ tasks[t].pc = "start"
    /\ LET R    == UnregisterOverlayShortcuts(RegState)
           lbls == HideLabels(window_labels, windows)
       IN  /\ registered' = R.reg
           /\ SYSTEM_SHORTCUT_BLOCKERS' = R.blk
           /\ NUMBER_KEY_SHORTCUTS' = R.num
           /\ IF lbls # <<>> /\ HasMonitorLabel(lbls)
              THEN HideFrom(t, visible, lbls, 1, 0)
              ELSE HideMainThenSleep(t, visible, 0)
    /\ emitted' = "none"
    /\ UNCHANGED <<WINDOW_OPERATION_IN_PROGRESS, OVERLAY_IS_VISIBLE,
                   OAUTH_IN_PROGRESS, windows, window_labels, setup, lastToggleOp>>

\* multi_monitor.rs:259-271: the verification of window i and its one retry,
\* then the next window.
HideAfterHideSleep(t) ==
    /\ UNCHANGED <<inputs, otherVars>>
    /\ tasks[t].kind = "hide" /\ tasks[t].pc = "sleep_hide"
    /\ LET l     == tasks[t].lbls[tasks[t].i]
           retry == visible[l]
           vis1  == IF retry THEN HideWindow(visible, windows, l) ELSE visible
       IN  HideFrom(t, vis1, tasks[t].lbls, tasks[t].i + 1, IF retry THEN 1 ELSE 0)
    /\ emitted' = "none"
    /\ UNCHANGED <<WINDOW_OPERATION_IN_PROGRESS, OVERLAY_IS_VISIBLE,
                   OAUTH_IN_PROGRESS, windows, window_labels, registered,
                   SYSTEM_SHORTCUT_BLOCKERS, NUMBER_KEY_SHORTCUTS, setup,
                   lastToggleOp>>

\* overlay.rs:298-342
HideAfterVerifySleep(t) ==
    /\ UNCHANGED <<inputs, otherVars>>
    /\ tasks[t].kind = "hide" /\ tasks[t].pc = "sleep_verify"
    /\ HideMainThenSleep(t, HideEvery(visible, windows, tasks[t].lbls),
                         Cardinality({l \in windows : Contains(tasks[t].lbls, l)
                                                      /\ visible[l]}))
    /\ emitted' = "none"
    /\ UNCHANGED <<WINDOW_OPERATION_IN_PROGRESS, OVERLAY_IS_VISIBLE,
                   OAUTH_IN_PROGRESS, windows, window_labels, registered,
                   SYSTEM_SHORTCUT_BLOCKERS, NUMBER_KEY_SHORTCUTS, setup,
                   lastToggleOp>>

\* overlay.rs:343-354: the last check of the main window; hide_overlay
\* returns Ok.  The toggle's task emits and goes on to await the focus
\* service (lib.rs:301-308); Escape's task emits and clears the operation
\* flag (lib.rs:153-155).
HideAfterMainSleep(t) ==
    /\ UNCHANGED <<inputs, otherVars>>
    /\ tasks[t].kind = "hide" /\ tasks[t].pc = "sleep_main"
    /\ visible' = HideWindow(visible, windows, "main")
    /\ tasks' = IF tasks[t].origin = "toggle"
                THEN [tasks EXCEPT ![t].pc = "focus"]
                ELSE [tasks EXCEPT ![t] = NoTask]
    /\ WINDOW_OPERATION_IN_PROGRESS' =
          (IF tasks[t].origin = "escape" THEN FALSE
           ELSE WINDOW_OPERATION_IN_PROGRESS)
    /\ emitted' = IF tasks[t].origin \in {"toggle", "escape"}
                  THEN "shortcut-triggered:false" ELSE "none"
    /\ last' = TaskReturned("hide_return", t, "none", TRUE,
                            IF visible["main"] THEN 1 ELSE 0, FALSE, FALSE)
    /\ UNCHANGED <<OVERLAY_IS_VISIBLE, OAUTH_IN_PROGRESS, windows,
                   window_labels, registered, SYSTEM_SHORTCUT_BLOCKERS,
                   NUMBER_KEY_SHORTCUTS, setup, lastToggleOp>>

\* lib.rs:304-326: the focus-service lock is granted, the unmute runs, the
\* operation flag is cleared.
HideFocus(t) ==
    /\ UNCHANGED <<inputs, otherVars>>
    /\ tasks[t].kind = "hide" /\ tasks[t].pc = "focus"
    /\ tasks' = [tasks EXCEPT ![t] = NoTask]
    /\ WINDOW_OPERATION_IN_PROGRESS' = FALSE
    /\ emitted' = "none"
    /\ last' = [Did("hide_focus") EXCEPT !.origin = tasks[t].origin]
    /\ UNCHANGED <<OVERLAY_IS_VISIBLE, OAUTH_IN_PROGRESS, windows, visible,
                   window_labels, registered, SYSTEM_SHORTCUT_BLOCKERS,
                   NUMBER_KEY_SHORTCUTS, setup, lastToggleOp>>

\* A panic inside a spawned task: the runtime drops the task.  The
\* catch_unwind of lib.rs:235 has returned before the task first runs.
TaskPanic(t) ==
    /\ inputs < MaxInputs
    /\ inputs' = inputs + 1
    /\ UNCHANGED otherVars
    /\ tasks[t].kind # "none"
    /\ tasks' = [tasks EXCEPT ![t] = NoTask]
    /\ emitted' = "none"
    /\ last' = [Did("panic") EXCEPT !.origin = tasks[t].origin]
    /\ UNCHANGED <<WINDOW_OPERATION_IN_PROGRESS, OVERLAY_IS_VISIBLE,
                   OAUTH_IN_PROGRESS, windows, visible, window_labels,
                   registered, SYSTEM_SHORTCUT_BLOCKERS, NUMBER_KEY_SHORTCUTS,
                   setup, lastToggleOp>>

----------------------------------------------------------------------------
(* The startup task (lib.rs:455-496) and the OAuth flow (calendar.rs).     *)

\* lib.rs:459-474 and 488-494: create_monitor_windows fails to enumerate
\* the monitors, or creates the windows of the monitors in S, hidden.
SetupCreate ==
    /\ UNCHANGED <<inputs, otherVars>>
    /\ setup = "spawned"
    /\ \/ /\ window_labels' = Append(window_labels, "main")
          /\ setup' = "done"
          /\ last' = [Did("setup_create") EXCEPT !.result = "Err"]
          /\ UNCHANGED <<windows, visible>>
       \/ \E S \in SUBSET (0..(MaxMonitors - 1)) :
          /\ windows' = windows \cup {MonitorLabel(i) : i \in S}
          /\ window_labels' = CreatedLabels(S)
          /\ visible' = IF S # {} THEN HideWindow(visible, windows, "main")
                        ELSE visible
          /\ setup' = IF S # {} THEN "sleeping" ELSE "done"
          /\ last' = [Did("setup_create") EXCEPT !.result = "Ok"]
    /\ emitted' = "none"
    /\ UNCHANGED <<WINDOW_OPERATION_IN_PROGRESS, OVERLAY_IS_VISIBLE,
                   OAUTH_IN_PROGRESS, registered, SYSTEM_SHORTCUT_BLOCKERS,
                   NUMBER_KEY_SHORTCUTS, tasks, lastToggleOp>>

\* lib.rs:476-484
SetupRecheck ==
    /\ UNCHANGED <<inputs, otherVars>>
    /\ setup = "sleeping"
    /\ setup' = "done"
    /\ visible' = HideWindow(visible, windows, "main")
    /\ emitted' = "none"
    /\ last' = Did("setup_recheck")
    /\ UNCHANGED <<WINDOW_OPERATION_IN_PROGRESS, OVERLAY_IS_VISIBLE,
                   OAUTH_IN_PROGRESS, windows, window_labels, registered,
                   SYSTEM_SHORTCUT_BLOCKERS, NUMBER_KEY_SHORTCUTS, tasks,
                   lastToggleOp>>

\* calendar.rs:88-101
OAuthStart ==
    /\ inputs < MaxInputs
    /\ inputs' = inputs + 1
    /\ UNCHANGED otherVars
    /\ ~OAUTH_IN_PROGRESS
    /\ OAUTH_IN_PROGRESS' = TRUE
    /\ visible' = [l \in AllLabels |-> FALSE]
    /\ emitted' = "none"
    /\ last' = Did("oauth_start")
    /\ UNCHANGED <<WINDOW_OPERATION_IN_PROGRESS, OVERLAY_IS_VISIBLE, windows,
                   window_labels, registered, SYSTEM_SHORTCUT_BLOCKERS,
                   NUMBER_KEY_SHORTCUTS, tasks, setup, lastToggleOp>>

\* calendar.rs:148-163, show_all_windows
OAuthShowAllWindows(vis, wins) == [l \in AllLabels |-> l \in wins]

\* calendar.rs:108-139: the flow ends, with a code or with an error.
OAuthFinish ==
    /\ UNCHANGED <<inputs, otherVars>>
    /\ OAUTH_IN_PROGRESS
    /\ OAUTH_IN_PROGRESS' = FALSE
    /\ visible' = OAuthShowAllWindows(visible, windows)
    /\ emitted' = "none"
    /\ last' = Did("oauth_finish")
    /\ UNCHANGED <<WINDOW_OPERATION_IN_PROGRESS, OVERLAY_IS_VISIBLE, windows,
                   window_labels, registered, SYSTEM_SHORTCUT_BLOCKERS,
                   NUMBER_KEY_SHORTCUTS, tasks, setup, lastToggleOp>>

----------------------------------------------------------------------------
(* The window tracker (services/window_tracker.rs).  A window is its       *)
(* handle; os_windows are the handles EnumWindows reports that are visible *)
(* and titled.                                                             *)

Handles == 1..MaxHandles

\* window_tracker.rs:117-124: cache.clear(), then every enumerated window
\* is inserted under its handle.
CacheReplace(cache, enumerated) == enumerated

\* window_tracker.rs:274-277
OpenedWindows(current_windows, cached_handles) ==
    {w \in current_windows : w \notin cached_handles}

\* window_tracker.rs:280-283
ClosedWindows(current_handles, cached_handles) ==
    {h \in cached_handles : h \notin current_handles}

\* Windows open and close.
OsWindowsChange ==
    /\ \E S \in SUBSET Handles : S # os_windows /\ os_windows' = S
    /\ UNCHANGED <<overlayVars, os_taken, monitors, geometry, cached_windows,
                   tracked, dispatched, call,
                   focusVars>>

\* window_tracker.rs:35-133, called on its own (get_visible_windows,
\* get_window_titles, track_focus_changes): Err when EnumWindows fails.
EnumerateWindows ==
    /\ \E ok \in BOOLEAN :
         cached_windows' = IF ok THEN CacheReplace(cached_windows, os_windows)
                           ELSE cached_windows
    /\ UNCHANGED <<overlayVars, os_taken, monitors, geometry, os_windows,
                   tracked, dispatched, call,
                   focusVars>>

\* window_tracker.rs:264-294: enumerate_windows()? runs first and replaces
\* the cache; the cached handles are read after it.
TrackWindowChanges ==
    /\ \E ok \in BOOLEAN :
         IF ok
         THEN LET current_windows == os_windows
                  cache           == CacheReplace(cached_windows, current_windows)
                  current_handles == current_windows
                  cached_handles  == cache
              IN  /\ cached_windows' = cache
                  /\ tracked' = [result   |-> "Ok",
                                 previous |-> cached_windows,
                                 current  |-> os_windows,
                                 opened   |-> OpenedWindows(current_windows,
                                                            cached_handles),
                                 closed   |-> ClosedWindows(current_handles,
                                                            cached_handles)]
         ELSE /\ cached_windows' = cached_windows
              /\ tracked' = [NoTracked EXCEPT !.result = "Err",
                                              !.previous = cached_windows,
                                              !.current = os_windows]
    /\ UNCHANGED <<overlayVars, os_taken, monitors, geometry, os_windows,
                   dispatched, call,
                   focusVars>>

----------------------------------------------------------------------------
(* The handler's classification of a shortcut event (lib.rs:86-232), for   *)
(* any shortcut the plugin could deliver.  A shortcut is its modifier set  *)
(* and its key code.                                                       *)

Modifiers == {"CONTROL", "ALT", "SHIFT", "SUPER"}
ArrowKeys == {"ArrowUp", "ArrowDown", "ArrowLeft", "ArrowRight"}
DigitKeys == {"Digit1", "Digit2", "Digit3", "Digit4", "Digit5", "Digit6",
              "Digit7"}
BlockedLetterKeys == {"KeyA", "KeyI", "KeyX", "KeyK", "KeyN", "KeyS", "KeyT"}
Keys == ArrowKeys \cup DigitKeys \cup BlockedLetterKeys
            \cup {"Escape", "Digit8", "MetaLeft", "MetaRight", "KeyO",
                  "Space", "Enter", "PrintScreen"}
EventStates == {"Pressed", "Released"}

\* An is_win_combo without the Shift exclusion.
is_windows_shortcut_IgnoresShift(mods, key) ==
    \/ key \in {"MetaLeft", "MetaRight"}
    \/ ("SUPER" \in mods /\ key \in BlockedLetterKeys)

\* lib.rs:195-209
is_windows_shortcut(mods, key) ==
    \/ key \in {"MetaLeft", "MetaRight"}
    \/ ("SUPER" \in mods /\ "SHIFT" \notin mods /\ key \in BlockedLetterKeys)

\* lib.rs:212
is_print_screen(key) == key = "PrintScreen"

\* lib.rs:222, the condition of the pass-through branch.
is_screenshot(mods, key) ==
    \/ is_print_screen(key)
    \/ ("SUPER" \in mods /\ "SHIFT" \in mods /\ key = "KeyS")

\* A dispatch whose arrow and Escape tests only accept a bare key.
Classify_BareKeysOnly(mods, key, state) ==
    IF key \in ArrowKeys /\ mods = {} /\ state = "Pressed" THEN "arrow"
    ELSE IF key = "Escape" /\ mods = {} /\ state = "Pressed" THEN "escape"
    ELSE IF "ALT" \in mods /\ key \in DigitKeys /\ state = "Pressed"
         THEN "number"
    ELSE IF is_windows_shortcut(mods, key) /\ ~is_print_screen(key)
            /\ state = "Pressed" THEN "blocked"
    ELSE IF is_screenshot(mods, key) /\ state = "Pressed" THEN "screenshot"
    ELSE IF state = "Pressed" THEN "toggle"
    ELSE "released"

\* lib.rs:86-236: the branch the handler takes, in the order of its tests.
Classify(mods, key, state) ==
    IF key \in ArrowKeys /\ state = "Pressed" THEN "arrow"
    ELSE IF key = "Escape" /\ state = "Pressed" THEN "escape"
    ELSE IF "ALT" \in mods /\ key \in DigitKeys /\ state = "Pressed"
         THEN "number"
    ELSE IF is_windows_shortcut(mods, key) /\ ~is_print_screen(key)
            /\ state = "Pressed" THEN "blocked"
    ELSE IF is_screenshot(mods, key) /\ state = "Pressed" THEN "screenshot"
    ELSE IF state = "Pressed" THEN "toggle"
    ELSE "released"

\* A screen number counted from zero.
Payload_ZeroBased(key) ==
    CASE key = "ArrowUp" -> "up"
      [] key = "ArrowDown" -> "down"
      [] key = "ArrowLeft" -> "left"
      [] key = "ArrowRight" -> "right"
      [] key = "Digit1" -> "0"
      [] key = "Digit2" -> "1"
      [] key = "Digit3" -> "2"
      [] key = "Digit4" -> "3"
      [] key = "Digit5" -> "4"
      [] key = "Digit6" -> "5"
      [] key = "Digit7" -> "6"
      [] OTHER -> "none"

\* lib.rs:108-113 and 173-180: the value the branch passes to emit.
Payload(key) ==
    CASE key = "ArrowUp" -> "up"
      [] key = "ArrowDown" -> "down"
      [] key = "ArrowLeft" -> "left"
      [] key = "ArrowRight" -> "right"
      [] key = "Digit1" -> "1"
      [] key = "Digit2" -> "2"
      [] key = "Digit3" -> "3"
      [] key = "Digit4" -> "4"
      [] key = "Digit5" -> "5"
      [] key = "Digit6" -> "6"
      [] key = "Digit7" -> "7"
      [] OTHER -> "none"

\* lib.rs:222-226
ScreenshotBranch ==
    /\ emitted' = "none"
    /\ WINDOW_OPERATION_IN_PROGRESS' = FALSE
    /\ last' = Did("screenshot")
    /\ UNCHANGED <<OVERLAY_IS_VISIBLE, OAUTH_IN_PROGRESS, windows, visible,
                   window_labels, registered, SYSTEM_SHORTCUT_BLOCKERS,
                   NUMBER_KEY_SHORTCUTS, tasks, setup, lastToggleOp>>

\* lib.rs:82-398: the handler invoked with any shortcut and event state.
HandleEvent ==
    /\ dispatched = NoDispatch
    /\ call = NoCall
    /\ inputs < MaxInputs
    /\ inputs' = inputs + 1
    /\ \E mods \in SUBSET Modifiers, key \in Keys, state \in EventStates :
         LET branch == Classify(mods, key, state)
         IN  /\ CASE branch = "arrow" -> ArrowBranch
                  [] branch = "escape" -> EscapeBranch
                  [] branch = "number" -> NumberBranch
                  [] branch = "blocked" -> BlockedBranch
                  [] branch = "screenshot" -> ScreenshotBranch
                  [] branch = "toggle" -> TogglePressedBranch
                  [] OTHER -> ReleasedBranch
             /\ dispatched' = [mods |-> mods, key |-> key, state |-> state,
                               branch |-> branch,
                               payload |-> IF emitted' \in {"arrow-key-pressed",
                                                            "number-key-pressed"}
                                           THEN Payload(key) ELSE "none"]
    /\ UNCHANGED <<os_taken, monitors, geometry, cached_windows, os_windows,
                   tracked, call,
                   focusVars>>

----------------------------------------------------------------------------
(* The per-monitor window manager with the monitors' bounds                *)
(* (services/multi_monitor.rs, the cfg(windows) build).  A monitor is its  *)
(* rcMonitor together with what the OS answers for it: whether             *)
(* get_monitor_info succeeds and whether the window can be built.          *)

Rects == {[left |-> 0, top |-> 0, right |-> 1920, bottom |-> 1080],
          [left |-> 1920, top |-> 0, right |-> 3840, bottom |-> 1080],
          [left |-> 3840, top |-> 0, right |-> 5760, bottom |-> 1080],
          [left |-> -1280, top |-> 56, right |-> 0, bottom |-> 1080]}

MonitorRecords ==
    [rcMonitor : Rects, info_ok : BOOLEAN, build_ok : BOOLEAN]

\* The monitor lists the OS may report: at most MaxScreens monitors with
\* pairwise different bounds.
MonitorLists ==
    UNION {{ms \in [1..n -> MonitorRecords] :
              \A i, j \in 1..n : i # j => ms[i].rcMonitor # ms[j].rcMonitor}
           : n \in 0..MaxScreens}

ScreenLabels == {MonitorLabel(i) : i \in 0..(MaxScreens - 1)} \cup {"main"}

\* A window sized by the far corner instead of the extent.
MonitorGeometry_Corner(rc) ==
    [x |-> rc.left, y |-> rc.top, width |-> rc.right, height |-> rc.bottom]

\* multi_monitor.rs:35-38 and 116-119
MonitorGeometry(rc) ==
    [x |-> rc.left, y |-> rc.top,
     width |-> rc.right - rc.left, height |-> rc.bottom - rc.top]

\* multi_monitor.rs:29-85: the loop over the monitors from index k on; a
\* label is pushed when the info query and the build succeed.
RECURSIVE CreateLoop(_, _)
CreateLoop(ms, k) ==
    IF k > Len(ms) THEN <<>>
    ELSE (IF ms[k].info_ok /\ ms[k].build_ok
          THEN <<MonitorLabel(k - 1)>> ELSE <<>>) \o CreateLoop(ms, k + 1)

\* multi_monitor.rs:20-100 called by the startup task, which stores the
\* labels (lib.rs:459-464) or pushes "main" on Err (lib.rs:488-493).  A
\* built window is hidden and has the monitor's position and size.
CreateMonitorWindows ==
    /\ setup = "spawned"
    /\ \E ms \in MonitorLists, enumerated \in BOOLEAN :
         LET labels == CreateLoop(ms, 1)
         IN  /\ monitors' = ms
             /\ IF enumerated
                THEN /\ windows' = windows \cup {labels[k] : k \in 1..Len(labels)}
                     /\ geometry' =
                          [l \in ScreenLabels |->
                             IF \E k \in 1..Len(ms) :
                                   l = MonitorLabel(k - 1) /\ Contains(labels, l)
                             THEN MonitorGeometry(
                                    ms[CHOOSE k \in 1..Len(ms) :
                                          l = MonitorLabel(k - 1)].rcMonitor)
                             ELSE geometry[l]]
                     /\ visible' = [l \in ScreenLabels |->
                                      IF Contains(labels, l) THEN FALSE
                                      ELSE visible[l]]
                     /\ window_labels' = labels
                     /\ last' = [Did("create_monitor_windows")
                                   EXCEPT !.result = "Ok"]
                ELSE /\ window_labels' = Append(window_labels, "main")
                     /\ last' = [Did("create_monitor_windows")
                                   EXCEPT !.result = "Err"]
                     /\ UNCHANGED <<windows, geometry, visible>>
    /\ setup' = "done"
    /\ emitted' = "none"
    /\ UNCHANGED <<WINDOW_OPERATION_IN_PROGRESS, OVERLAY_IS_VISIBLE,
                   OAUTH_IN_PROGRESS, registered, SYSTEM_SHORTCUT_BLOCKERS,
                   NUMBER_KEY_SHORTCUTS, tasks, lastToggleOp, inputs,
                   os_taken, cached_windows, os_windows, tracked, dispatched, call,
                   focusVars>>

\* multi_monitor.rs:103-231 run to its end: with the monitors enumerated,
\* the window at position k of the label list is sized and placed on the
\* monitor at position k when its info query succeeds, then shown; without
\* them every labelled window is just shown.
ShowAllWindows ==
    /\ setup = "done"
    /\ \E enumerated \in BOOLEAN :
         /\ geometry' =
              [l \in ScreenLabels |->
                 IF /\ enumerated
                    /\ l \in windows
                    /\ \E k \in 1..Len(window_labels) :
                          /\ window_labels[k] = l
                          /\ k <= Len(monitors)
                          /\ monitors[k].info_ok
                 THEN MonitorGeometry(
                        monitors[CHOOSE k \in 1..Len(window_labels) :
                                    window_labels[k] = l].rcMonitor)
                 ELSE geometry[l]]
         /\ visible' = [l \in ScreenLabels |->
                          IF l \in windows /\ Contains(window_labels, l)
                          THEN TRUE ELSE visible[l]]
    /\ last' = [Did("show_all_windows") EXCEPT !.result = "Ok"]
    /\ emitted' = "none"
    /\ UNCHANGED <<WINDOW_OPERATION_IN_PROGRESS, OVERLAY_IS_VISIBLE,
                   OAUTH_IN_PROGRESS, windows, window_labels, registered,
                   SYSTEM_SHORTCUT_BLOCKERS, NUMBER_KEY_SHORTCUTS, tasks,
                   setup, lastToggleOp, inputs, os_taken, monitors,
                   cached_windows, os_windows, tracked, dispatched, call,
                   focusVars>>

\* multi_monitor.rs:234-277 run to its end.
HideAllWindows ==
    /\ setup = "done"
    /\ visible' = [l \in ScreenLabels |->
                     IF l \in windows /\ Contains(window_labels, l)
                     THEN FALSE ELSE visible[l]]
    /\ last' = [Did("hide_all_windows") EXCEPT !.result = "Ok"]
    /\ emitted' = "none"
    /\ UNCHANGED <<WINDOW_OPERATION_IN_PROGRESS, OVERLAY_IS_VISIBLE,
                   OAUTH_IN_PROGRESS, windows, window_labels, registered,
                   SYSTEM_SHORTCUT_BLOCKERS, NUMBER_KEY_SHORTCUTS, tasks,
                   setup, lastToggleOp, inputs, otherVars>>

----------------------------------------------------------------------------
(* Setup (lib.rs:403-592), before the startup task is spawned.             *)

\* lib.rs:404-450: the toggle candidates are tried in order; whether or not
\* one registered, setup goes on, manages the label state and spawns the
\* startup task, and returns Ok(()).
SetupShortcuts ==
    /\ setup = "init"
    /\ registered' = (registered \ ToggleShortcuts) \cup RegisterToggle(os_taken)
    /\ setup' = "spawned"
    /\ last' = Did("setup_shortcuts")
    /\ emitted' = "none"
    /\ UNCHANGED <<WINDOW_OPERATION_IN_PROGRESS, OVERLAY_IS_VISIBLE,
                   OAUTH_IN_PROGRESS, windows, visible, window_labels,
                   SYSTEM_SHORTCUT_BLOCKERS, NUMBER_KEY_SHORTCUTS, tasks,
                   lastToggleOp, inputs, otherVars>>

----------------------------------------------------------------------------
(* MultiMonitorManager's loops over a label list (multi_monitor.rs:102-301) *)
(* as functions of what each labelled window does when it is called.       *)

\* What the window behind one label of the list does: whether
\* get_webview_window finds it, whether it is visible beforehand, what
\* is_visible() returns, whether the first show()/hide() fails, takes effect
\* or returns without effect, and whether a second one takes effect.
WindowBehaviours ==
    [present : BOOLEAN, visible : BOOLEAN, query : {"Ok", "Err"},
     first : {"Err", "Ok", "NoEffect"}, retry : BOOLEAN]

\* The label lists a call may be handed, as the behaviours of their windows.
WindowLists == UNION {[1..n -> WindowBehaviours] : n \in 0..MaxLabels}

\* multi_monitor.rs:282-298: the loop from position k on; scanned is the
\* number of labels looked at when the function returns.
RECURSIVE VisibleScan(_, _)
VisibleScan(ws, k) ==
    IF k > Len(ws) THEN [result |-> FALSE, scanned |-> Len(ws)]
    ELSE IF ws[k].present /\ ws[k].query = "Ok" /\ ws[k].visible
         THEN [result |-> TRUE, scanned |-> k]
         ELSE VisibleScan(ws, k + 1)

\* A scan that gives up with false at the first failed query.
is_any_window_visible_scan_ErrStops(ws) ==
    LET stops == {k \in 1..Len(ws) :
                    ws[k].present /\ (ws[k].query = "Err" \/ ws[k].visible)}
    IN  IF stops = {} THEN [result |-> FALSE, scanned |-> Len(ws)]
        ELSE LET k == CHOOSE i \in stops : \A j \in stops : i <= j
             IN  [result |-> ws[k].query = "Ok", scanned |-> k]

\* multi_monitor.rs:280-301
is_any_window_visible_scan(ws) == VisibleScan(ws, 1)

\* One iteration that never shows a window a second time.
ShowLabelled_NoRetry(w, positioned) ==
    IF ~w.present
    THEN [shows |-> 0, checked |-> FALSE, visible |-> FALSE]
    ELSE [shows |-> 1, checked |-> positioned /\ w.first # "Err"
                                      /\ w.query = "Ok",
          visible |-> w.first = "Ok" \/ w.visible]

\* multi_monitor.rs:110-199 when the monitors were enumerated (positioned),
\* 205-211 and 220-226 otherwise: one iteration of the loop. shows counts the
\* window.show() calls, checked says whether is_visible() returned a value.
ShowLabelled(w, positioned) ==
    LET v1 == w.first = "Ok" \/ w.visible
    IN  IF ~w.present
        THEN [shows |-> 0, checked |-> FALSE, visible |-> FALSE]
        ELSE IF ~positioned \/ w.first = "Err"
        THEN [shows |-> 1, checked |-> FALSE, visible |-> v1]
        ELSE IF w.query = "Err"
        THEN [shows |-> 1, checked |-> FALSE, visible |-> v1]
        ELSE IF ~v1
        THEN [shows |-> 2, checked |-> TRUE, visible |-> w.retry]
        ELSE [shows |-> 1, checked |-> TRUE, visible |-> TRUE]

\* multi_monitor.rs:109 (204, 219): for label in window_labels, from k on.
RECURSIVE ShowLoop(_, _, _)
ShowLoop(ws, positioned, k) ==
    IF k > Len(ws) THEN <<>>
    ELSE <<ShowLabelled(ws[k], positioned)>> \o ShowLoop(ws, positioned, k + 1)

\* multi_monitor.rs:103-231
show_all_windows(ws, positioned) ==
    [result |-> "Ok", windows |-> ShowLoop(ws, positioned, 1)]

\* One iteration that hides again without looking.
HideLabelled_AlwaysTwice(w) ==
    IF ~w.present
    THEN [hides |-> 0, unfullscreen |-> FALSE, checked |-> FALSE,
          visible |-> FALSE]
    ELSE [hides |-> 2, unfullscreen |-> TRUE, checked |-> w.query = "Ok",
          visible |-> w.visible /\ w.first # "Ok" /\ ~w.retry]

\* multi_monitor.rs:237-274: one iteration of the loop. hides counts the
\* window.hide() calls, unfullscreen the set_fullscreen(false) call.
HideLabelled(w) ==
    LET v1 == w.visible /\ w.first # "Ok"
    IN  IF ~w.present
        THEN [hides |-> 0, unfullscreen |-> FALSE, checked |-> FALSE,
              visible |-> FALSE]
        ELSE IF w.query = "Err"
        THEN [hides |-> 1, unfullscreen |-> TRUE, checked |-> FALSE,
              visible |-> v1]
        ELSE IF v1
        THEN [hides |-> 2, unfullscreen |-> TRUE, checked |-> TRUE,
              visible |-> ~w.retry]
        ELSE [hides |-> 1, unfullscreen |-> TRUE, checked |-> TRUE,
              visible |-> FALSE]

\* multi_monitor.rs:236: for label in window_labels, from k on.
RECURSIVE HideLoop(_, _)
HideLoop(ws, k) ==
    IF k > Len(ws) THEN <<>>
    ELSE <<HideLabelled(ws[k])>> \o HideLoop(ws, k + 1)

\* multi_monitor.rs:234-277
hide_all_windows(ws) == [result |-> "Ok", windows |-> HideLoop(ws, 1)]

\* The three functions applied to the list the state holds.
CallIsAnyWindowVisible ==
    /\ call.fn = "none"
    /\ call.input \in WindowLists
    /\ call' = [call EXCEPT !.fn = "is_any_window_visible",
                            !.out = is_any_window_visible_scan(call.input)]
    /\ UNCHANGED <<overlayVars, os_taken, monitors, geometry, cached_windows,
                   os_windows, tracked, dispatched,
                   focusVars>>

\* positioned: the build is for Windows and get_all_monitors returned Ok.
CallShowAllWindows ==
    /\ call.fn = "none"
    /\ call.input \in WindowLists
    /\ \E positioned \in BOOLEAN :
         call' = [call EXCEPT !.fn = IF positioned
                                     THEN "show_all_windows"
                                     ELSE "show_all_windows_plain",
                              !.out = show_all_windows(call.input, positioned)]
    /\ UNCHANGED <<overlayVars, os_taken, monitors, geometry, cached_windows,
                   os_windows, tracked, dispatched,
                   focusVars>>

CallHideAllWindows ==
    /\ call.fn = "none"
    /\ call.input \in WindowLists
    /\ call' = [call EXCEPT !.fn = "hide_all_windows",
                            !.out = hide_all_windows(call.input)]
    /\ UNCHANGED <<overlayVars, os_taken, monitors, geometry, cached_windows,
                   os_windows, tracked, dispatched,
                   focusVars>>


----------------------------------------------------------------------------
(* The single-main-window fallback of show_overlay (overlay.rs:157-227) as *)
(* a function of what the build, the OS and the window calls do.           *)

\* Whether the main window exists, whether the build is for Windows,
\* whether get_all_monitors returns Ok and with how many monitors, and which
\* of the calls on the way succeed.
FallbackInputs ==
    [main_present : BOOLEAN, windows_build : BOOLEAN, enumerated : BOOLEAN,
     count : 0..MaxScreens, top_ok : BOOLEAN, bounds_ok : BOOLEAN,
     hwnd_ok : BOOLEAN, position_ok : BOOLEAN, fullscreen_ok : BOOLEAN,
     show_ok : BOOLEAN]

\* A fallback that spans the virtual desktop with a single monitor too.
show_overlay_fallback_SpanSingle(i) ==
    LET attempted == i.windows_build /\ i.enumerated /\ i.count >= 1
        spanned == attempted /\ i.bounds_ok /\ i.hwnd_ok /\ i.position_ok
        sized == i.main_present /\ i.top_ok
        fullscreen == sized /\ ~spanned
        result == IF /\ sized
                     /\ fullscreen => i.fullscreen_ok
                     /\ i.show_ok
                  THEN "Ok" ELSE "Err"
    IN  [result |-> result, attempted |-> sized /\ attempted,
         spanned |-> sized /\ spanned, fullscreen |-> fullscreen,
         shown |-> result = "Ok"]

\* overlay.rs:157-227. attempted: get_virtual_desktop_bounds was called;
\* spanned: position_window_for_all_monitors returned Ok; fullscreen:
\* set_fullscreen(true) was called; every `?` returns Err at once.
show_overlay_fallback(i) ==
    LET attempted == i.windows_build /\ i.enumerated /\ i.count > 1
        spanned == attempted /\ i.bounds_ok /\ i.hwnd_ok /\ i.position_ok
        sized == i.main_present /\ i.top_ok
        fullscreen == sized /\ ~spanned
        result == IF /\ sized
                     /\ fullscreen => i.fullscreen_ok
                     /\ i.show_ok
                  THEN "Ok" ELSE "Err"
    IN  [result |-> result, attempted |-> sized /\ attempted,
         spanned |-> sized /\ spanned, fullscreen |-> fullscreen,
         shown |-> result = "Ok"]

\* The fallback applied to the inputs the state holds.
CallShowOverlayFallback ==
    /\ call.fn = "none"
    /\ call.input \in FallbackInputs
    /\ call' = [call EXCEPT !.fn = "show_overlay_fallback",
                            !.out = show_overlay_fallback(call.input)]
    /\ UNCHANGED <<overlayVars, os_taken, monitors, geometry, cached_windows,
                   os_windows, tracked, dispatched,
                   focusVars>>


----------------------------------------------------------------------------
(* WindowTracker's snapshot functions (window_tracker.rs:35-261) as        *)
(* functions of the tracker's fields and of what the OS reports.           *)

TrackedHandles == 1..MaxTracked
Titles == {"a", "b"}

\* A handle the OS does not know, and a handle the cache does not hold.
OsGone == [title |-> "", is_visible |-> FALSE]
NoEntry == [title |-> "", is_visible |-> FALSE, last_active |-> 0]

\* A window as the OS reports it: title stands for the title, the process
\* name and the executable path, which are read together.
OsWindows == {OsGone} \cup [title : Titles, is_visible : BOOLEAN]

\* models/window.rs WindowInfo, the handle being the key.
WindowInfos ==
    [title : Titles, is_visible : BOOLEAN, last_active : 1..(MaxClock - 1)]

\* The tracker's fields, the OS state and the time at a call: entries were
\* written before now, an entry of a window that was not visible was
\* inserted by get_active_window, which records a foreground handle, and
\* GetForegroundWindow returns 0 or an existing window.
TrackerInputs ==
    {i \in [cached_windows : [TrackedHandles -> {NoEntry} \cup WindowInfos],
            foreground_window : {0} \cup TrackedHandles,
            os : [TrackedHandles -> OsWindows],
            foreground : {0} \cup TrackedHandles,
            now : {MaxClock}] :
        /\ i.foreground # 0 => i.os[i.foreground] # OsGone
        /\ (\E h \in TrackedHandles :
               /\ i.cached_windows[h] # NoEntry
               /\ ~i.cached_windows[h].is_visible)
             => i.foreground_window # 0}

\* What EnumWindows hands to the callback and the callback keeps
\* (window_tracker.rs:51-74).
Listed(os) == {h \in TrackedHandles : os[h] # OsGone /\ os[h].is_visible}

NoneWindow == [some |-> FALSE, handle |-> 0, window |-> NoEntry]
SomeWindow(h, w) == [some |-> TRUE, handle |-> h, window |-> w]

\* An enumeration that stamps every entry with the current time.
enumerate_windows_AlwaysNow(i, enumerated) ==
    IF ~enumerated
    THEN [result |-> "Err", windows |-> [h \in {} |-> NoEntry],
          cached_windows |-> i.cached_windows,
          foreground_window |-> i.foreground_window]
    ELSE LET infos ==
                 [h \in Listed(i.os) |->
                    [title |-> i.os[h].title,
                     is_visible |-> i.os[h].is_visible,
                     last_active |-> i.now]]
         IN  [result |-> "Ok", windows |-> infos,
              cached_windows |-> [h \in TrackedHandles |->
                                    IF h \in Listed(i.os) THEN infos[h]
                                    ELSE NoEntry],
              foreground_window |-> i.foreground_window]

\* window_tracker.rs:35-133: Err when EnumWindows fails; otherwise one
\* WindowInfo per listed window, last_active taken from the cache when the
\* handle is there (98-103), and the cache cleared and refilled (118-124).
enumerate_windows(i, enumerated) ==
    IF ~enumerated
    THEN [result |-> "Err", windows |-> [h \in {} |-> NoEntry],
          cached_windows |-> i.cached_windows,
          foreground_window |-> i.foreground_window]
    ELSE LET infos ==
                 [h \in Listed(i.os) |->
                    [title |-> i.os[h].title,
                     is_visible |-> i.os[h].is_visible,
                     last_active |-> IF i.cached_windows[h] # NoEntry
                                     THEN i.cached_windows[h].last_active
                                     ELSE i.now]]
         IN  [result |-> "Ok", windows |-> infos,
              cached_windows |-> [h \in TrackedHandles |->
                                    IF h \in Listed(i.os) THEN infos[h]
                                    ELSE NoEntry],
              foreground_window |-> i.foreground_window]

\* window_tracker.rs:169-226: None without a foreground window; the cached
\* entry when the handle is in the cache (181-186); otherwise the window as
\* the OS reports it, which is inserted into the cache and recorded as the
\* foreground window (188-224).
get_active_window(i) ==
    LET h == i.foreground
    IN  IF h = 0
        THEN [active |-> NoneWindow, cached_windows |-> i.cached_windows,
              foreground_window |-> i.foreground_window]
        ELSE IF i.cached_windows[h] # NoEntry
        THEN [active |-> SomeWindow(h, i.cached_windows[h]),
              cached_windows |-> i.cached_windows,
              foreground_window |-> i.foreground_window]
        ELSE LET window == [title |-> i.os[h].title,
                            is_visible |-> i.os[h].is_visible,
                            last_active |-> i.now]
             IN  [active |-> SomeWindow(h, window),
                  cached_windows |-> [i.cached_windows EXCEPT ![h] = window],
                  foreground_window |-> h]

\* window_tracker.rs:235-261: the comparison reads foreground_window after
\* get_active_window returned.
track_focus_changes(i) ==
    LET g == get_active_window(i)
        focus_changed == g.active.some /\ g.foreground_window # g.active.handle
    IN  [active |-> IF focus_changed THEN g.active ELSE NoneWindow,
         cached_windows |-> g.cached_windows,
         foreground_window |-> IF focus_changed THEN g.active.handle
                               ELSE g.foreground_window]

\* The three functions applied to the tracker the state holds.
CallEnumerateWindows ==
    /\ call.fn = "none"
    /\ call.input \in TrackerInputs
    /\ \E enumerated \in BOOLEAN :
         call' = [call EXCEPT !.fn = "enumerate_windows",
                              !.out = enumerate_windows(call.input, enumerated)]
    /\ UNCHANGED <<overlayVars, os_taken, monitors, geometry, cached_windows,
                   os_windows, tracked, dispatched,
                   focusVars>>

CallGetActiveWindow ==
    /\ call.fn = "none"
    /\ call.input \in TrackerInputs
    /\ call' = [call EXCEPT !.fn = "get_active_window",
                            !.out = get_active_window(call.input)]
    /\ UNCHANGED <<overlayVars, os_taken, monitors, geometry, cached_windows,
                   os_windows, tracked, dispatched,
                   focusVars>>

CallTrackFocusChanges ==
    /\ call.fn = "none"
    /\ call.input \in TrackerInputs
    /\ call' = [call EXCEPT !.fn = "track_focus_changes",
                            !.out = track_focus_changes(call.input)]
    /\ UNCHANGED <<overlayVars, os_taken, monitors, geometry, cached_windows,
                   os_windows, tracked, dispatched,
                   focusVars>>


----------------------------------------------------------------------------
(***************************************************************************)
(* Focus sessions (services/focus_service.rs).  A session's id stands for  *)
(* its start_time: the stored FocusSession carries no other identity.  A   *)
(* duration is counted in the seconds of the timer task's loop.            *)
(***************************************************************************)

\* focus_service.rs:217-226 and 385-392: a session is stored and is_active.
SessionActive(s) ==
    s.current_session # NoSession /\ s.current_session.is_active

\* start_focus_mode without the check of focus_service.rs:217-226.
start_focus_mode_NoCheck(s, id, d) ==
    [result |-> "ok",
     service |-> [s EXCEPT !.current_session =
                               [id |-> id, is_active |-> TRUE,
                                remaining_seconds |-> d],
                           !.notification_state = TRUE],
     timer |-> [pc |-> "loop", duration |-> d, elapsed |-> 0]]

\* focus_service.rs:212-379: Err while a session is active; otherwise
\* enable_focus_assist and mute_notifications (both return Ok, 436-472 and
\* 855-881), the session stored and its timer task spawned.
start_focus_mode(s, id, d) ==
    IF SessionActive(s)
    THEN [result |-> "err", service |-> s, timer |-> NoTimer]
    ELSE [result |-> "ok",
          service |-> [s EXCEPT !.current_session =
                                    [id |-> id, is_active |-> TRUE,
                                     remaining_seconds |-> d],
                                !.notification_state = TRUE],
          timer |-> [pc |-> "loop", duration |-> d, elapsed |-> 0]]

\* focus_service.rs:382-427: Err without an active session; otherwise the
\* notifications are restored (1047-1072 leaves notification_state false,
\* so the unmute of 411-417 is skipped) and the session is cleared.  The
\* session's timer task is not told.
stop_focus_mode(s) ==
    IF ~SessionActive(s)
    THEN [result |-> "err", service |-> s]
    ELSE [result |-> "ok",
          service |-> [s EXCEPT !.current_session = NoSession,
                                !.notification_state = FALSE]]

\* A command of the focus service returned.
Returned(op, result) ==
    [focus_env EXCEPT !.calls = @ + 1, !.op = op, !.result = result]

\* commands/focus.rs: start_focus_mode with any duration.
StartFocusMode ==
    /\ focus_env.calls < MaxCalls
    /\ \E d \in Durations :
         LET id == focus_env.calls + 1
             r == start_focus_mode(focus_service, id, d)
         IN  /\ focus_service' = r.service
             /\ focus_timers' = IF r.result = "ok"
                                THEN [focus_timers EXCEPT !.session[id] = r.timer]
                                ELSE focus_timers
             /\ focus_env' = Returned("start_focus_mode", r.result)
    /\ UNCHANGED <<shellVars, blocker>>

\* commands/focus.rs: stop_focus_mode.
StopFocusMode ==
    /\ focus_env.calls < MaxCalls
    /\ LET r == stop_focus_mode(focus_service)
       IN  /\ focus_service' = r.service
           /\ focus_env' = Returned("stop_focus_mode", r.result)
    /\ UNCHANGED <<shellVars, focus_timers, blocker>>

\* focus_service.rs:276-307: one round of the countdown loop of the timer
\* task spawned for session k: a second passes, then either the loop ends
\* or remaining_seconds of whatever session is stored is overwritten.
TimerTick(k) ==
    /\ focus_timers.session[k].pc = "loop"
    /\ LET t == focus_timers.session[k]
           elapsed == t.elapsed + 1
       IN  IF elapsed >= t.duration
           THEN /\ focus_timers' = [focus_timers EXCEPT
                                       !.session[k].pc = "finish",
                                       !.session[k].elapsed = elapsed]
                /\ UNCHANGED focus_service
           ELSE /\ focus_timers' = [focus_timers EXCEPT
                                       !.session[k].elapsed = elapsed]
                /\ focus_service' =
                     IF focus_service.current_session # NoSession
                     THEN [focus_service EXCEPT
                              !.current_session.remaining_seconds =
                                  t.duration - elapsed]
                     ELSE focus_service
    /\ UNCHANGED <<shellVars, focus_env, blocker>>

\* focus_service.rs:309-316: the loop ended; whatever session is stored is
\* deactivated.
TimerFinish(k) ==
    /\ focus_timers.session[k].pc = "finish"
    /\ focus_timers' = [focus_timers EXCEPT !.session[k].pc = "restore"]
    /\ focus_service' =
         IF focus_service.current_session # NoSession
         THEN [focus_service EXCEPT !.current_session.is_active = FALSE,
                                    !.current_session.remaining_seconds = 0]
         ELSE focus_service
    /\ UNCHANGED <<shellVars, focus_env, blocker>>

\* focus_service.rs:318-376: notifications restored, notification_state
\* cleared and the task that clears the session spawned.
TimerRestore(k) ==
    /\ focus_timers.session[k].pc = "restore"
    /\ focus_timers' = [focus_timers EXCEPT !.session[k].pc = "clear"]
    /\ focus_service' = [focus_service EXCEPT !.notification_state = FALSE]
    /\ UNCHANGED <<shellVars, focus_env, blocker>>

\* focus_service.rs:371-375: five seconds later the stored session is
\* cleared.
TimerClear(k) ==
    /\ focus_timers.session[k].pc = "clear"
    /\ focus_timers' = [focus_timers EXCEPT !.session[k].pc = "done"]
    /\ focus_service' = [focus_service EXCEPT !.current_session = NoSession]
    /\ UNCHANGED <<shellVars, focus_env, blocker>>


----------------------------------------------------------------------------
(***************************************************************************)
(* Temporary mutes (services/focus_service.rs:1145-1283), in the Windows   *)
(* build.  The wall clock counts ticks, TickRes to the second; a duration  *)
(* is counted in seconds.  A timer task reads the clock when it runs, not  *)
(* when it was spawned, and sleeps whole seconds.                          *)
(***************************************************************************)

\* focus_service.rs:1145-1240 without its timer task: notifications muted;
\* with a duration the end time stored, without one the end time cleared.
temporarily_mute_notifications(s, now, d) ==
    [s EXCEPT !.notification_state = TRUE,
              !.temporary_mute_end_time =
                  IF d # NoDuration THEN now + d * TickRes ELSE NoEndTime]

\* focus_service.rs:1246-1283
unmute_notifications(s) ==
    [s EXCEPT !.temporary_mute_end_time = NoEndTime,
              !.notification_state = FALSE]

\* focus_service.rs:1195: (mute_end_time - now).num_seconds(), the whole
\* seconds of the difference, rounded towards zero.
num_seconds(ticks) ==
    IF ticks >= 0 THEN ticks \div TickRes ELSE 0 - ((0 - ticks) \div TickRes)

\* focus_service.rs:1203-1206
should_restore(s, now) ==
    /\ s.temporary_mute_end_time # NoEndTime
    /\ s.temporary_mute_end_time <= now

\* The mutes requested so far are no longer the latest request.
Superseded(mute) ==
    [k \in CallIds |-> IF mute[k].pc # "none"
                       THEN [mute[k] EXCEPT !.superseded = TRUE]
                       ELSE mute[k]]

\* The wall clock advances.
Tick ==
    /\ focus_env.now < MaxTime
    /\ focus_env' = [focus_env EXCEPT !.now = @ + 1]
    /\ UNCHANGED <<shellVars, focus_service, focus_timers, blocker>>

\* commands/focus.rs: temporarily_mute_notifications with or without a
\* duration; with one, the timer task is spawned (focus_service.rs:1193).
TemporarilyMute ==
    /\ focus_env.calls < MaxCalls
    /\ \E d \in {NoDuration} \cup Durations :
         LET id == focus_env.calls + 1
             end_time == focus_env.now + d * TickRes
         IN  /\ end_time <= MaxTime
             /\ focus_service' = temporarily_mute_notifications(
                                     focus_service, focus_env.now, d)
             /\ focus_timers' =
                  [focus_timers EXCEPT !.mute =
                      IF d # NoDuration
                      THEN [Superseded(@) EXCEPT
                               ![id] = [pc |-> "spawned", end_time |-> end_time,
                                        wake |-> 0, superseded |-> FALSE]]
                      ELSE Superseded(@)]
    /\ focus_env' = Returned("temporarily_mute_notifications", "ok")
    /\ UNCHANGED <<shellVars, blocker>>

\* commands/focus.rs: unmute_notifications.
UnmuteNotifications ==
    /\ focus_env.calls < MaxCalls
    /\ focus_service' = unmute_notifications(focus_service)
    /\ focus_timers' = [focus_timers EXCEPT !.mute = Superseded(@)]
    /\ focus_env' = Returned("unmute_notifications", "ok")
    /\ UNCHANGED <<shellVars, blocker>>

\* focus_service.rs:1194-1200: the timer task of mute m starts running,
\* reads the clock and goes to sleep for the whole seconds that are left.
MuteTimerStart(m) ==
    /\ focus_timers.mute[m].pc = "spawned"
    /\ LET wait_seconds == num_seconds(focus_timers.mute[m].end_time
                                       - focus_env.now)
       IN  focus_timers' = [focus_timers EXCEPT
               !.mute[m].pc = "sleep",
               !.mute[m].wake = IF wait_seconds > 0
                                THEN focus_env.now + wait_seconds * TickRes
                                ELSE focus_env.now]
    /\ UNCHANGED <<shellVars, focus_service, focus_env, blocker>>

\* focus_service.rs:1199-1208: the sleep is over; the stored end time is
\* compared with the clock and the read lock released.
MuteTimerWake(m) ==
    /\ focus_timers.mute[m].pc = "sleep"
    /\ focus_env.now >= focus_timers.mute[m].wake
    /\ focus_timers' = [focus_timers EXCEPT !.mute[m].pc =
                           IF should_restore(focus_service, focus_env.now)
                           THEN "restore" ELSE "done"]
    /\ UNCHANGED <<shellVars, focus_service, focus_env, blocker>>

\* focus_service.rs:1208-1235: notifications restored, the end time and
\* notification_state cleared.
MuteTimerRestore(m) ==
    /\ focus_timers.mute[m].pc = "restore"
    /\ focus_timers' = [focus_timers EXCEPT !.mute[m].pc = "done"]
    /\ focus_service' = [focus_service EXCEPT
                            !.temporary_mute_end_time = NoEndTime,
                            !.notification_state = FALSE]
    /\ UNCHANGED <<shellVars, focus_env, blocker>>

\* A step of the timer task of mute m.
MuteTimerStep(m) ==
    MuteTimerStart(m) \/ MuteTimerWake(m) \/ MuteTimerRestore(m)


----------------------------------------------------------------------------
(***************************************************************************)
(* The notification blocker (utils/notification_suppression.rs:1085-1217). *)
(* A thread is "spawned" until it first runs, "check" when it is back at   *)
(* the head of its loop, "scan" inside EnumWindows or the 10 ms sleep,     *)
(* "exited" after its break.  The callers are any threads: nothing         *)
(* serialises start_notification_blocker with stop_notification_blocker.   *)
(***************************************************************************)

\* The blocker threads that have not exited.
RunningThreads(b) == {t \in ThreadIds : b.threads[t] \in {"spawned", "check", "scan"}}

\* notification_suppression.rs:1092-1202: the flag swapped to true; a
\* thread spawned unless the flag was already set.
start_notification_blocker(b, t) ==
    [b EXCEPT !.BLOCKER_RUNNING = TRUE,
              !.threads[t] = IF b.BLOCKER_RUNNING THEN "none" ELSE "spawned",
              !.calls = @ + 1]

\* notification_suppression.rs:1211-1217: the flag cleared; the 50 ms sleep
\* waits for no thread.
stop_notification_blocker(b) ==
    [b EXCEPT !.BLOCKER_RUNNING = FALSE, !.calls = @ + 1]

StartNotificationBlocker ==
    /\ blocker.calls < MaxBlockerCalls
    /\ blocker' = start_notification_blocker(blocker, blocker.calls + 1)
    /\ UNCHANGED <<shellVars, focus_service, focus_timers, focus_env>>

StopNotificationBlocker ==
    /\ blocker.calls < MaxBlockerCalls
    /\ blocker' = stop_notification_blocker(blocker)
    /\ UNCHANGED <<shellVars, focus_service, focus_timers, focus_env>>

\* notification_suppression.rs:1187-1192: the head of the loop.
BlockerCheck(t) ==
    /\ blocker.threads[t] \in {"spawned", "check"}
    /\ blocker' = [blocker EXCEPT !.threads[t] =
                      IF blocker.BLOCKER_RUNNING THEN "scan" ELSE "exited"]
    /\ UNCHANGED <<shellVars, focus_service, focus_timers, focus_env>>

\* notification_suppression.rs:1194-1195: EnumWindows and the sleep return.
BlockerScan(t) ==
    /\ blocker.threads[t] = "scan"
    /\ blocker' = [blocker EXCEPT !.threads[t] = "check"]
    /\ UNCHANGED <<shellVars, focus_service, focus_timers, focus_env>>


----------------------------------------------------------------------------
TaskStep(t) ==
    \/ ShowStart(t)
    \/ ShowAfterMainSleep(t)
    \/ ShowAfterWinSleep(t)
    \/ HideStart(t)
    \/ HideAfterHideSleep(t)
    \/ HideAfterVerifySleep(t)
    \/ HideAfterMainSleep(t)
    \/ HideFocus(t)

Next ==
    \/ HandleTogglePressed
    \/ HandleReleased
    \/ HandleArrowPressed
    \/ HandleEscapePressed
    \/ HandleNumberPressed
    \/ HandleBlockedPressed
    \/ CmdShowOverlay
    \/ CmdHideOverlay
    \/ \E t \in Slots : TaskStep(t)
    \/ \E t \in Slots : TaskPanic(t)
    \/ SetupCreate
    \/ SetupRecheck
    \/ OAuthStart
    \/ OAuthFinish

Spec == Init /\ [][Next]_vars

\* The toggle key is the only input: presses and releases of the primary
\* toggle, the tasks they dispatch, and the startup task.
ToggleNext ==
    \/ HandleTogglePressed
    \/ HandleReleased
    \/ \E t \in Slots : TaskStep(t)
    \/ SetupCreate
    \/ SetupRecheck

ToggleSpec == Init /\ [][ToggleNext]_vars

\* The inputs are toggle presses and releases, dismiss-key presses and the
\* show_overlay / hide_overlay commands.
OverlayNext ==
    \/ HandleTogglePressed
    \/ HandleReleased
    \/ HandleEscapePressed
    \/ CmdShowOverlay
    \/ CmdHideOverlay
    \/ \E t \in Slots : TaskStep(t)
    \/ SetupCreate
    \/ SetupRecheck

OverlaySpec == Init /\ [][OverlayNext]_vars

\* The window tracker on its own: windows open and close between calls.
TrackerNext ==
    \/ OsWindowsChange
    \/ EnumerateWindows
    \/ TrackWindowChanges

TrackerSpec == Init /\ [][TrackerNext]_vars


\* The handler invoked once with an arbitrary shortcut event, whatever is
\* registered, while the overlay is hidden or shown.
DispatchNext ==
    \/ HandleEvent
    \/ \E t \in Slots : TaskStep(t)
    \/ SetupCreate
    \/ SetupRecheck

DispatchInit == (OverlayInit \/ OverlayShownInit) /\ OtherInit

DispatchSpec == DispatchInit /\ [][DispatchNext]_vars


\* The window manager on its own: the windows are created once, then shown
\* and hidden as a whole.
MonitorInit ==
    /\ WINDOW_OPERATION_IN_PROGRESS = FALSE
    /\ OVERLAY_IS_VISIBLE = FALSE
    /\ OAUTH_IN_PROGRESS = FALSE
    /\ windows = {"main"}
    /\ visible = [l \in ScreenLabels |-> FALSE]
    /\ window_labels = <<>>
    /\ registered = {PrimaryToggle}
    /\ SYSTEM_SHORTCUT_BLOCKERS = {}
    /\ NUMBER_KEY_SHORTCUTS = {}
    /\ tasks = [t \in Slots |-> NoTask]
    /\ setup = "spawned"
    /\ emitted = "none"
    /\ last = NoLast
    /\ lastToggleOp = "none"
    /\ inputs = 0
    /\ os_taken = {}
    /\ monitors = <<>>
    /\ geometry = [l \in ScreenLabels |-> NoGeometry]
    /\ cached_windows = {}
    /\ os_windows = {}
    /\ tracked = NoTracked
    /\ dispatched = NoDispatch
    /\ call = NoCall
    /\ FocusAtRest

MonitorNext ==
    \/ CreateMonitorWindows
    \/ ShowAllWindows
    \/ HideAllWindows

MonitorSpec == MonitorInit /\ [][MonitorNext]_vars


\* The process from the start of setup, with any subset of the toggle
\* candidates held by other processes; afterwards the toggle key is the
\* only input.
StartupInit ==
    /\ WINDOW_OPERATION_IN_PROGRESS = FALSE
    /\ OVERLAY_IS_VISIBLE = FALSE
    /\ OAUTH_IN_PROGRESS = FALSE
    /\ windows = {"main"}
    /\ visible = [l \in AllLabels |-> FALSE]
    /\ window_labels = <<>>
    /\ registered = {}
    /\ SYSTEM_SHORTCUT_BLOCKERS = {}
    /\ NUMBER_KEY_SHORTCUTS = {}
    /\ tasks = [t \in Slots |-> NoTask]
    /\ setup = "init"
    /\ emitted = "none"
    /\ last = NoLast
    /\ lastToggleOp = "none"
    /\ inputs = 0
    /\ os_taken \in SUBSET ToggleShortcuts
    /\ monitors = <<>>
    /\ geometry = [l \in AllLabels |-> NoGeometry]
    /\ cached_windows = {}
    /\ os_windows = {}
    /\ tracked = NoTracked
    /\ dispatched = NoDispatch
    /\ call = NoCall
    /\ FocusAtRest

StartupNext ==
    \/ SetupShortcuts
    \/ SetupCreate
    \/ SetupRecheck
    \/ HandleTogglePressed
    \/ HandleReleased
    \/ \E t \in Slots : TaskStep(t)

StartupSpec == StartupInit /\ [][StartupNext]_vars


\* MultiMonitorManager's loops applied once to any label list of at most
\* MaxLabels windows.
ManagerInit ==
    /\ OverlayInit
    /\ os_taken = {}
    /\ monitors = <<>>
    /\ geometry = [l \in AllLabels |-> NoGeometry]
    /\ cached_windows = {}
    /\ os_windows = {}
    /\ tracked = NoTracked
    /\ dispatched = NoDispatch
    /\ \E ws \in WindowLists : call = [NoCall EXCEPT !.input = ws]
    /\ FocusAtRest

ManagerNext ==
    \/ CallIsAnyWindowVisible
    \/ CallShowAllWindows
    \/ CallHideAllWindows

ManagerSpec == ManagerInit /\ [][ManagerNext]_vars


\* The fallback of show_overlay applied once to any of its inputs.
FallbackInit ==
    /\ OverlayInit
    /\ os_taken = {}
    /\ monitors = <<>>
    /\ geometry = [l \in AllLabels |-> NoGeometry]
    /\ cached_windows = {}
    /\ os_windows = {}
    /\ tracked = NoTracked
    /\ dispatched = NoDispatch
    /\ \E i \in FallbackInputs : call = [NoCall EXCEPT !.input = i]
    /\ FocusAtRest

FallbackNext == CallShowOverlayFallback

FallbackSpec == FallbackInit /\ [][FallbackNext]_vars


\* WindowTracker's snapshot functions applied once to any tracker over
\* MaxTracked handles.
SnapshotInit ==
    /\ OverlayInit
    /\ os_taken = {}
    /\ monitors = <<>>
    /\ geometry = [l \in AllLabels |-> NoGeometry]
    /\ cached_windows = {}
    /\ os_windows = {}
    /\ tracked = NoTracked
    /\ dispatched = NoDispatch
    /\ \E i \in TrackerInputs : call = [NoCall EXCEPT !.input = i]
    /\ FocusAtRest

SnapshotNext ==
    \/ CallEnumerateWindows
    \/ CallGetActiveWindow
    \/ CallTrackFocusChanges

SnapshotSpec == SnapshotInit /\ [][SnapshotNext]_vars



\* The focus service's sessions: start and stop commands in any order, the
\* timer tasks running beside them.
FocusInit == OverlayInit /\ OtherInit

FocusNext ==
    \/ StartFocusMode
    \/ StopFocusMode
    \/ \E k \in CallIds : TimerTick(k)
    \/ \E k \in CallIds : TimerFinish(k)
    \/ \E k \in CallIds : TimerRestore(k)
    \/ \E k \in CallIds : TimerClear(k)

FocusSpec == FocusInit /\ [][FocusNext]_vars



\* The focus service's temporary mutes: mute and unmute commands in any
\* order while the clock runs.  The runtime schedules every spawned timer
\* task and time passes: both are weakly fair.
MuteInit == OverlayInit /\ OtherInit

MuteNext ==
    \/ Tick
    \/ TemporarilyMute
    \/ UnmuteNotifications
    \/ \E m \in CallIds : MuteTimerStart(m)
    \/ \E m \in CallIds : MuteTimerWake(m)
    \/ \E m \in CallIds : MuteTimerRestore(m)

MuteSpec ==
    /\ MuteInit
    /\ [][MuteNext]_vars
    /\ WF_vars(Tick)
    /\ \A m \in CallIds : WF_vars(MuteTimerStep(m))



\* The notification blocker under any sequence of start and stop calls.
BlockerInit == OverlayInit /\ OtherInit

BlockerNext ==
    \/ StartNotificationBlocker
    \/ StopNotificationBlocker
    \/ \E t \in ThreadIds : BlockerCheck(t)
    \/ \E t \in ThreadIds : BlockerScan(t)

BlockerSpec == BlockerInit /\ [][BlockerNext]_vars


----------------------------------------------------------------------------
(* Properties.                                                             *)

ToggleTasks == {t \in Slots : tasks[t].kind # "none" /\ tasks[t].origin = "toggle"}
NoTaskRunning == \A t \in Slots : tasks[t].kind = "none"
MonitorWindowVisible == \E l \in windows : IsMonitorLabel(l) /\ visible[l]
TogglePressActs == {"toggle_dropped", "toggle_show", "toggle_hide"}

\* C1: at most one show/hide task dispatched by a toggle press is in flight
\* at any time, whatever hotkey events arrive meanwhile.
C1_AtMostOneToggleOpInFlight == Cardinality(ToggleTasks) <= 1

C3_GuardClearedWhenTaskEnds ==
    WINDOW_OPERATION_IN_PROGRESS => ToggleTasks # {}

\* C4: a toggle press that finds the operation flag set dispatches nothing,
\* leaves OVERLAY_IS_VISIBLE, the windows, the shortcuts and the flag as they
\* are; and a task of the toggle is only ever spawned by a press that found
\* the flag clear (a dropped press is not replayed later).
C4_BusyToggleIsDropped ==
    [][ /\ (last'.act \in TogglePressActs /\ WINDOW_OPERATION_IN_PROGRESS)
            => /\ last'.act = "toggle_dropped"
               /\ WINDOW_OPERATION_IN_PROGRESS'
               /\ emitted' = "none"
               /\ UNCHANGED <<tasks, OVERLAY_IS_VISIBLE, windows, visible,
                              window_labels, registered, lastToggleOp>>
        /\ (\E t \in Slots : tasks[t].kind = "none" /\ tasks'[t].origin = "toggle")
            => /\ last'.act \in {"toggle_show", "toggle_hide"}
               /\ ~WINDOW_OPERATION_IN_PROGRESS
      ]_vars

\* A toggle press was just dropped while the task of an earlier one runs.
C4_Witness ==
    /\ last.act = "toggle_dropped"
    /\ WINDOW_OPERATION_IN_PROGRESS
    /\ ToggleTasks # {}

\* C5: a show_overlay called when the overlay is already shown issues no
\* window-mutating call and registers no additional shortcut.
C5_ShowWhenShownIsNoOp ==
    (last.act \in {"show_step", "show_return"} /\ last.shownAtCall)
        => (last.calls = 0 /\ ~last.regAdded)

\* C6: a show_overlay that returns Ok through the main-window fallback (no
\* monitor window exists: creation yielded none, or enumeration failed)
\* leaves the main window visible, and the toggle path's visibility
\* resolution reports true.
C6_FallbackShowIsVisible ==
    (last.act = "show_return" /\ last.path = "main" /\ last.result = "Ok")
        => /\ ~(\E l \in windows : IsMonitorLabel(l))
           /\ visible["main"]
           /\ ResolveVisible(window_labels, windows, visible, OVERLAY_IS_VISIBLE)

\* Monitor enumeration failed at startup and a show completed through the
\* main window.
C6_Witness ==
    /\ last.act = "show_return" /\ last.path = "main" /\ last.result = "Ok"
    /\ setup = "done"
    /\ window_labels = <<"main">>
    /\ visible["main"]

\* C7: when a show_overlay that took the multi-monitor path returns Ok, the
\* main window is not visible.
C7_MainHiddenAfterMultiShow ==
    (last.act = "show_return" /\ last.path = "multi" /\ last.result = "Ok")
        => ~visible["main"]

\* A multi-monitor show has just returned Ok with a monitor window visible.
C7_Witness ==
    /\ last.act = "show_return" /\ last.path = "multi" /\ last.result = "Ok"
    /\ MonitorWindowVisible

\* C8: the main window and an overlay_monitor_* window are never both visible.
C8_MainNeverWithMonitorWindows ==
    ~(visible["main"] /\ MonitorWindowVisible)

\* C9: whenever no show/hide operation is in flight, OVERLAY_IS_VISIBLE
\* equals the actual overlay visibility.
C9_FlagMatchesVisibility ==
    NoTaskRunning => (OVERLAY_IS_VISIBLE = ActualVisible)

\* C10: when the show_overlay or hide_overlay dispatched by a toggle returns
\* Err, OVERLAY_IS_VISIBLE is what it was before that toggle, the operation
\* flag is clear, and the registered shortcuts are those registered before
\* that toggle, so that the next toggle starts from the same state.
C10_FailedToggleLeavesNoTrace ==
    (last.act \in {"show_return", "hide_return"} /\ last.origin = "toggle"
        /\ last.result = "Err")
        => /\ OVERLAY_IS_VISIBLE = last.flagBefore
           /\ ~WINDOW_OPERATION_IN_PROGRESS
           /\ registered = last.regBefore

\* C11: a track_window_changes that returns Ok on a tracker whose cached
\* snapshot was A while the OS window set is B returns as opened the handles
\* of B not in A and as closed the handles of A not in B.
C11_DiffOfSnapshots ==
    tracked.result = "Ok"
        => /\ tracked.opened = tracked.current \ tracked.previous
           /\ tracked.closed = tracked.previous \ tracked.current

\* C12: a press of a block-listed combination while no overlay window is
\* visible spawns neither show_overlay nor hide_overlay, emits no event and
\* leaves OVERLAY_IS_VISIBLE and every window as they are.
C12_BlockedPressIsInert ==
    [][ (last'.act = "blocked" /\ ~ActualVisible)
            => /\ emitted' = "none"
               /\ UNCHANGED <<tasks, OVERLAY_IS_VISIBLE, windows, visible,
                              window_labels>>
      ]_vars

\* A blocked combination was pressed while every window is hidden.
C12_Witness ==
    /\ last.act = "blocked"
    /\ ~ActualVisible
    /\ registered \cap BlockerShortcuts # {}

\* C13: a press of Win+Shift+S or of Print Screen is never classified as a
\* blocked system shortcut (nor as any branch but the pass-through one), and
\* the handler then spawns neither show_overlay nor hide_overlay, emits no
\* event and leaves the toggle flag and the windows alone, whether the
\* overlay is visible or hidden.
C13_ScreenshotPassesThrough ==
    [][ (/\ dispatched' # dispatched
         /\ dispatched'.state = "Pressed"
         /\ \/ dispatched'.key = "PrintScreen"
            \/ (dispatched'.key = "KeyS"
                /\ {"SUPER", "SHIFT"} \subseteq dispatched'.mods))
            => /\ dispatched'.branch = "screenshot"
               /\ last'.act = "screenshot"
               /\ emitted' = "none"
               /\ UNCHANGED <<tasks, OVERLAY_IS_VISIBLE, windows, visible,
                              window_labels, registered>>
      ]_vars

\* Win+Shift+S was pressed while an overlay window is visible.
C13_Witness ==
    /\ dispatched.key = "KeyS" /\ dispatched.mods = {"SUPER", "SHIFT"}
    /\ dispatched.state = "Pressed"
    /\ last.act = "screenshot"
    /\ ActualVisible

\* C14: an arrow-key press emits arrow-key-pressed exactly when the overlay
\* is visible as the visibility resolver determines it (monitor windows,
\* else the main window, else the toggle flag), and spawns no task.
C14_ArrowEmitsWhenVisible ==
    last.act = "arrow"
        => (emitted = "arrow-key-pressed"
              <=> ResolveVisible(window_labels, windows, visible,
                                 OVERLAY_IS_VISIBLE))

\* C15: a dismiss-key press while the overlay is visible dispatches
\* hide_overlay, whose success emits shortcut-triggered(false); a dismiss-key
\* press while no overlay window is visible dispatches and emits nothing.
C15_EscapeHidesWhenVisible ==
    /\ last.act \in {"escape_hide", "escape_ignored"}
          => /\ (last.act = "escape_hide") <=> ActualVisible
             /\ emitted = "none"
    /\ (last.act = "hide_return" /\ last.origin = "escape"
          /\ last.result = "Ok")
          => emitted = "shortcut-triggered:false"

\* C16: a toggle press that acquires the operation flag dispatches
\* hide_overlay if the resolved visibility is true and show_overlay
\* otherwise; shortcut-triggered(true) is emitted exactly when the
\* show_overlay of a toggle returns Ok, the hide_overlay of a toggle emits
\* shortcut-triggered(false) exactly when it returns Ok, and a dropped press
\* or a failed operation emits nothing.
C16_ToggleDispatchAndEvent ==
    [][ /\ last'.act \in {"toggle_show", "toggle_hide"}
            => /\ ~WINDOW_OPERATION_IN_PROGRESS
               /\ (last'.act = "toggle_hide")
                     <=> ResolveVisible(window_labels, windows, visible,
                                        OVERLAY_IS_VISIBLE)
               /\ \E t \in Slots :
                     /\ tasks[t].kind = "none"
                     /\ tasks'[t].origin = "toggle"
                     /\ tasks'[t].kind = (IF last'.act = "toggle_hide"
                                          THEN "hide" ELSE "show")
               /\ emitted' = "none"
        /\ (emitted' = "shortcut-triggered:true")
              <=> (last'.act = "show_return" /\ last'.origin = "toggle"
                   /\ last'.result = "Ok")
        /\ (last'.act = "hide_return" /\ last'.origin = "toggle")
              => ((emitted' = "shortcut-triggered:false")
                     <=> last'.result = "Ok")
        /\ (last'.act \in {"show_return", "hide_return"}
              /\ last'.result = "Err") => emitted' = "none"
        /\ last'.act = "toggle_dropped" => emitted' = "none"
      ]_vars

\* A toggle press resolved the overlay as visible and dispatched
\* hide_overlay, which has just returned Ok and emitted the event.
C16_Witness ==
    /\ last.act = "hide_return" /\ last.origin = "toggle"
    /\ last.result = "Ok"
    /\ emitted = "shortcut-triggered:false"
    /\ lastToggleOp = "hide"

C18_FirstAcceptedToggleOnly ==
    [][ /\ setup = "init" => setup' = "spawned"
        /\ setup' # "init"
            => /\ Cardinality(registered' \cap ToggleShortcuts) <= 1
               /\ \A k \in 1..3 :
                    (<<"Ctrl+Space", "Win+Space", "Win+O">>[k] \in registered')
                      <=> /\ <<"Ctrl+Space", "Win+Space", "Win+O">>[k] \notin os_taken
                          /\ \A j \in 1..(k - 1) :
                               <<"Ctrl+Space", "Win+Space", "Win+O">>[j] \in os_taken
      ]_vars

\* Ctrl+Space was held by another process: Win+Space is the toggle, and a
\* press of it has shown the overlay.
C18_Witness ==
    /\ os_taken = {"Ctrl+Space"}
    /\ registered \cap ToggleShortcuts = {"Win+Space"}
    /\ setup = "done"
    /\ OVERLAY_IS_VISIBLE
    /\ ActualVisible

\* C19: once setup has run, the dismiss key, the arrow keys, the
\* screen-select keys and the system-shortcut block list are registered at
\* all times, whether or not a toggle registered and whether the overlay is
\* shown or hidden.
C19_OverlayShortcutsAlwaysRegistered ==
    setup # "init"
        => /\ registered \cap {"Ctrl+Escape", "Escape"} # {}
           /\ registered \cap {"Alt+Arrow", "Arrow"} # {}
           /\ NumberShortcuts \subseteq registered
           /\ BlockerShortcuts \subseteq registered

\* The three tiers as claimed: the label set (from the state, else from the
\* scan) decides alone when it is not empty, the main window only when it
\* is empty, and the toggle flag only when the window to ask does not exist.
C20_StrictTiers(lbls, wins, vis, flag) ==
    LET toCheck == IF lbls = <<>> THEN ScanMonitorWindows(wins) ELSE lbls
    IN  IF toCheck # <<>>
        THEN IF \E k \in 1..Len(toCheck) : toCheck[k] \in wins
             THEN is_any_window_visible(vis, wins, toCheck)
             ELSE flag
        ELSE IF "main" \in wins THEN vis["main"] ELSE flag

\* C20: the visibility a toggle press resolves follows the strict three
\* tiers: OVERLAY_IS_VISIBLE never overrides a window query that answered,
\* and the main window is asked only when there is no monitor-window label.
C20_ResolutionFollowsTiers ==
    [][ last'.act \in {"toggle_show", "toggle_hide"}
            => ((last'.act = "toggle_hide")
                  <=> C20_StrictTiers(window_labels, windows, visible,
                                      OVERLAY_IS_VISIBLE))
      ]_vars

\* C21: a toggle press that acquires the operation flag while
\* OVERLAY_IS_VISIBLE is true dispatches hide_overlay, also when every
\* overlay window and the main window are reported hidden; a toggle press
\* never dispatches show_overlay while OVERLAY_IS_VISIBLE is true.
C21_FlagPreferredOverQuery ==
    [][ (last'.act \in {"toggle_show", "toggle_hide"} /\ OVERLAY_IS_VISIBLE)
            => /\ last'.act = "toggle_hide"
               /\ \E t \in Slots : /\ tasks[t].kind = "none"
                                   /\ tasks'[t].kind = "hide"
                                   /\ tasks'[t].origin = "toggle"
               /\ \A t \in Slots : tasks'[t].kind = "show"
                                      => tasks[t].kind = "show"
      ]_vars

\* A toggle press has just dispatched hide_overlay although every window is
\* hidden: only the flag said visible.
C21_Witness ==
    /\ last.act = "toggle_hide"
    /\ ~ActualVisible
    /\ \E t \in Slots : tasks[t].kind = "hide" /\ tasks[t].pc = "start"
                        /\ tasks[t].flagBefore

\* C22: when a hide_overlay returns, whoever started it (toggle, dismiss key
\* or command) and with no show in flight beside it, every overlay window
\* and the main window are hidden and OVERLAY_IS_VISIBLE is false, so that
\* the next toggle press resolves the overlay as hidden and dispatches
\* show_overlay.
C22_HideLeavesHiddenAndFlagClear ==
    (/\ last.act = "hide_return"
     /\ \A t \in Slots : tasks[t].kind # "show")
        => /\ ~ActualVisible
           /\ ~OVERLAY_IS_VISIBLE
           /\ ~ResolveVisible(window_labels, windows, visible,
                              OVERLAY_IS_VISIBLE)

\* C23: while an operation dispatched by the toggle holds
\* WINDOW_OPERATION_IN_PROGRESS, a hide started by the dismiss key or by the
\* hide_overlay command and a show started by the show_overlay command do
\* nothing: none of them gets past its entry while the toggle's operation
\* is in flight.
C23_GuardedReentrancy ==
    ~ /\ WINDOW_OPERATION_IN_PROGRESS
      /\ \E t \in Slots : /\ tasks[t].origin = "toggle"
                          /\ tasks[t].kind # "none"
      /\ \E t \in Slots : /\ tasks[t].origin \in {"escape", "command"}
                          /\ tasks[t].kind # "none"
                          /\ tasks[t].pc # "start"

\* C24: a Pressed event is handled by exactly one branch, the first of
\* arrow key, Escape, Alt+Digit1-7, blocked system shortcut, screenshot
\* pass-through whose test it meets, whatever its other modifiers; only an
\* event that meets none of the five tests runs the toggle branch, and only
\* such an event can take WINDOW_OPERATION_IN_PROGRESS from false to true.
C24_BranchOrder ==
    [][ (dispatched' # dispatched /\ dispatched'.state = "Pressed")
            => LET k == dispatched'.key
                   m == dispatched'.mods
                   isArrow == k \in ArrowKeys
                   isEscape == k = "Escape"
                   isNumber == "ALT" \in m /\ k \in DigitKeys
                   isBlocked == /\ \/ k \in {"MetaLeft", "MetaRight"}
                                   \/ /\ "SUPER" \in m
                                      /\ "SHIFT" \notin m
                                      /\ k \in BlockedLetterKeys
                                /\ k # "PrintScreen"
                   isShot == \/ k = "PrintScreen"
                             \/ {"SUPER", "SHIFT"} \subseteq m /\ k = "KeyS"
                   expected ==
                       IF isArrow THEN {"arrow"}
                       ELSE IF isEscape THEN {"escape_hide", "escape_ignored"}
                       ELSE IF isNumber THEN {"number"}
                       ELSE IF isBlocked THEN {"blocked"}
                       ELSE IF isShot THEN {"screenshot"}
                       ELSE {"toggle_dropped", "toggle_show", "toggle_hide"}
                   early == isArrow \/ isEscape \/ isNumber \/ isBlocked
                                \/ isShot
               IN  /\ last'.act \in expected
                   /\ early => /\ lastToggleOp' = lastToggleOp
                               /\ OVERLAY_IS_VISIBLE' = OVERLAY_IS_VISIBLE
                               /\ ~(~WINDOW_OPERATION_IN_PROGRESS
                                    /\ WINDOW_OPERATION_IN_PROGRESS')
      ]_vars

\* Ctrl+Shift+ArrowUp was pressed while the overlay is hidden and the guard
\* is free: the arrow branch handled it and nothing was toggled.
C24_Witness ==
    /\ dispatched.key = "ArrowUp" /\ dispatched.mods = {"CONTROL", "SHIFT"}
    /\ dispatched.state = "Pressed"
    /\ last.act = "arrow"
    /\ ~ActualVisible
    /\ tasks = [t \in Slots |-> NoTask]

\* C25: a press of Alt+DigitN, N in 1..7, whatever its other modifiers and
\* whether the overlay is visible or hidden, emits number-key-pressed with
\* payload N, spawns neither show_overlay nor hide_overlay and leaves
\* OVERLAY_IS_VISIBLE and the windows as they were.
C25_NumberKeyEmitsScreen ==
    [][ (/\ dispatched' # dispatched
         /\ dispatched'.state = "Pressed"
         /\ "ALT" \in dispatched'.mods
         /\ dispatched'.key \in DigitKeys)
            => /\ emitted' = "number-key-pressed"
               /\ \E n \in 1..7 :
                    /\ dispatched'.key = <<"Digit1", "Digit2", "Digit3",
                                           "Digit4", "Digit5", "Digit6",
                                           "Digit7">>[n]
                    /\ dispatched'.payload = <<"1", "2", "3", "4", "5", "6",
                                               "7">>[n]
               /\ UNCHANGED <<tasks, OVERLAY_IS_VISIBLE, lastToggleOp,
                              windows, visible, window_labels>>
      ]_vars

\* Alt+Digit7 was pressed while every window is hidden and the flag is
\* clear, and the event carried 7.
C25_Witness ==
    /\ dispatched.key = "Digit7" /\ dispatched.mods = {"ALT"}
    /\ dispatched.state = "Pressed"
    /\ emitted = "number-key-pressed"
    /\ dispatched.payload = "7"
    /\ ~ActualVisible /\ ~OVERLAY_IS_VISIBLE

\* C26: is_any_window_visible returns true exactly when some label of the
\* list names an existing window whose visibility query returns Ok(true); a
\* missing window and a failed query count as not visible, the result is
\* always a boolean, and the scan only ends before the last label when it
\* found a visible window.
C26_VisibleIffSomeWindowReportsVisible ==
    call.fn = "is_any_window_visible"
        => LET ws == call.input
               reports(k) == /\ ws[k].present
                             /\ ws[k].query = "Ok"
                             /\ ws[k].visible
           IN  /\ call.out.result \in BOOLEAN
               /\ call.out.result <=> \E k \in 1..Len(ws) : reports(k)
               /\ ~call.out.result => call.out.scanned = Len(ws)
               /\ call.out.result
                     => /\ reports(call.out.scanned)
                        /\ \A j \in 1..(call.out.scanned - 1) : ~reports(j)

\* The first window's query failed and the second window is visible: the
\* scan went on and returned true.
C26_Witness ==
    /\ call.fn = "is_any_window_visible"
    /\ Len(call.input) = 2
    /\ call.input[1].present /\ call.input[1].query = "Err"
    /\ call.out.result
    /\ call.out.scanned = 2

\* C27 as stated: show_all_windows shows every labelled window that exists,
\* re-checks its visibility and shows it a second time exactly when it is
\* still not visible after the first call; no window gets more than two
\* show calls, every label of the list is processed and the result is Ok.
C27_RetriesWheneverStillInvisible ==
    call.fn \in {"show_all_windows", "show_all_windows_plain"}
        => LET ws == call.input
               out == call.out.windows
           IN  /\ call.out.result = "Ok"
               /\ Len(out) = Len(ws)
               /\ \A k \in 1..Len(ws) :
                    IF ws[k].present
                    THEN /\ out[k].shows \in {1, 2}
                         /\ out[k].checked
                         /\ out[k].shows = 2
                               <=> ~(ws[k].first = "Ok" \/ ws[k].visible)
                    ELSE out[k].shows = 0

\* C27: show_all_windows shows every labelled window that exists once; on
\* the path where the monitors were enumerated, after a show call that
\* returned Ok and a visibility query that returned a value, it shows the
\* window a second time exactly when the query reported it not visible;
\* after a failed show call or a failed query, and on the path without
\* monitors, the window gets its one call and no retry. No window gets more
\* than two show calls, a missing window gets none, every label of the list
\* is processed and the result is Ok.
C27_AtMostTwoShows ==
    call.fn \in {"show_all_windows", "show_all_windows_plain"}
        => LET ws == call.input
               out == call.out.windows
               positioned == call.fn = "show_all_windows"
           IN  /\ call.out.result = "Ok"
               /\ Len(out) = Len(ws)
               /\ \A k \in 1..Len(ws) :
                    IF ws[k].present
                    THEN /\ out[k].shows \in {1, 2}
                         /\ out[k].checked
                               <=> /\ positioned
                                   /\ ws[k].first # "Err"
                                   /\ ws[k].query = "Ok"
                         /\ out[k].shows = 2
                               <=> /\ out[k].checked
                                   /\ ~(ws[k].first = "Ok" \/ ws[k].visible)
                    ELSE out[k].shows = 0

\* The first window is missing and the second one was shown twice because
\* its first show returned Ok without making it visible.
C27_Witness ==
    /\ call.fn = "show_all_windows"
    /\ Len(call.input) = 2
    /\ ~call.input[1].present
    /\ call.out.windows[1].shows = 0
    /\ call.input[2].first = "NoEffect"
    /\ call.out.windows[2].shows = 2

\* C28: hide_all_windows calls hide on every labelled window that exists and
\* clears its fullscreen state, re-checks its visibility and hides it a
\* second time exactly when the re-check reports it still visible; a window
\* gets at most two hide calls, a missing window none; after a missing
\* window or a failed query the remaining labels are still processed, and
\* the result is always Ok.
C28_HideRetriesOnce ==
    call.fn = "hide_all_windows"
        => LET ws == call.input
               out == call.out.windows
           IN  /\ call.out.result = "Ok"
               /\ Len(out) = Len(ws)
               /\ \A k \in 1..Len(ws) :
                    IF ws[k].present
                    THEN /\ out[k].hides \in {1, 2}
                         /\ out[k].unfullscreen
                         /\ out[k].checked <=> ws[k].query = "Ok"
                         /\ out[k].hides = 2
                               <=> /\ ws[k].query = "Ok"
                                   /\ ws[k].visible
                                   /\ ws[k].first # "Ok"
                    ELSE out[k].hides = 0 /\ ~out[k].unfullscreen

\* The first window's query failed, and the second window, still visible
\* after its first hide, was hidden a second time.
C28_Witness ==
    /\ call.fn = "hide_all_windows"
    /\ Len(call.input) = 2
    /\ call.input[1].present /\ call.input[1].query = "Err"
    /\ call.out.windows[1].hides = 1
    /\ call.input[2].visible /\ call.input[2].first = "NoEffect"
    /\ call.out.windows[2].hides = 2
    /\ ~call.out.windows[2].visible

\* C29: after show_all_windows, every window overlay_monitor_k of the label
\* list has the position and size of monitor k, and no two overlay windows
\* lie on the same monitor, also when the list has gaps.
C29_WindowOnItsOwnMonitor ==
    last.act = "show_all_windows"
        => /\ \A k \in 1..Len(monitors) :
                (/\ Contains(window_labels, MonitorLabel(k - 1))
                 /\ MonitorLabel(k - 1) \in windows)
                    => geometry[MonitorLabel(k - 1)] =
                          MonitorGeometry(monitors[k].rcMonitor)
           /\ \A i, j \in 1..Len(window_labels) :
                (/\ i # j
                 /\ window_labels[i] \in windows
                 /\ window_labels[j] \in windows
                 /\ IsMonitorLabel(window_labels[i])
                 /\ IsMonitorLabel(window_labels[j]))
                    => geometry[window_labels[i]] # geometry[window_labels[j]]

\* C30 as stated: in the fallback, once the window is being sized, either
\* exactly one monitor was detected and fullscreen is set, or the window is
\* positioned to span the virtual desktop and fullscreen is set only when
\* that positioning was attempted and failed.
C30_FullscreenOnlyForOneMonitor ==
    (call.fn = "show_overlay_fallback" /\ call.input.main_present
     /\ call.input.top_ok)
        => LET i == call.input
               one == i.windows_build /\ i.enumerated /\ i.count = 1
           IN  IF one THEN call.out.fullscreen /\ ~call.out.attempted
               ELSE /\ call.out.attempted
                    /\ call.out.fullscreen <=> ~call.out.spanned

\* C30: in the fallback, once the window is being sized, spanning the
\* virtual desktop is attempted exactly when the build is for Windows and
\* more than one monitor was enumerated; fullscreen is set in every other
\* case (one monitor, none, a failed enumeration, another platform) and when
\* the attempt fails (no bounds, no handle, or the positioning call fails),
\* and never when the window was positioned.
C30_FullscreenUnlessSpanned ==
    (call.fn = "show_overlay_fallback" /\ call.input.main_present
     /\ call.input.top_ok)
        => LET i == call.input
           IN  /\ call.out.attempted
                     <=> i.windows_build /\ i.enumerated /\ i.count > 1
               /\ call.out.spanned
                     <=> /\ call.out.attempted
                         /\ i.bounds_ok /\ i.hwnd_ok /\ i.position_ok
               /\ call.out.fullscreen <=> ~call.out.spanned

\* One monitor was detected: fullscreen was set without any positioning and
\* the window shown.
C30_Witness ==
    /\ call.fn = "show_overlay_fallback"
    /\ call.input.windows_build /\ call.input.enumerated
    /\ call.input.count = 1
    /\ call.out.fullscreen /\ ~call.out.attempted
    /\ call.out.result = "Ok"

\* C31: an enumerate_windows call that succeeds returns one entry per listed
\* window; an entry whose handle was in the cache keeps the cached
\* last_active, an entry whose handle was not gets the time of this
\* enumeration; afterwards the cache holds exactly the returned entries, so
\* handles absent from the enumeration are gone from it.
C31_LastActiveCarriedOver ==
    (call.fn = "enumerate_windows" /\ call.out.result = "Ok")
        => LET i == call.input
               o == call.out
           IN  /\ DOMAIN o.windows = Listed(i.os)
               /\ \A h \in DOMAIN o.windows :
                    /\ o.windows[h].title = i.os[h].title
                    /\ IF i.cached_windows[h] # NoEntry
                       THEN o.windows[h].last_active
                                = i.cached_windows[h].last_active
                       ELSE o.windows[h].last_active = i.now
               /\ \A h \in TrackedHandles :
                    IF h \in Listed(i.os)
                    THEN o.cached_windows[h] = o.windows[h]
                    ELSE o.cached_windows[h] = NoEntry

\* One handle persisted and kept its older time, another is new and got the
\* current time, after an enumeration that dropped nothing else.
C31_Witness ==
    /\ call.fn = "enumerate_windows" /\ call.out.result = "Ok"
    /\ call.input.cached_windows[1] # NoEntry
    /\ call.input.cached_windows[2] = NoEntry
    /\ Listed(call.input.os) = {1, 2}
    /\ call.out.windows[1].last_active < call.input.now
    /\ call.out.windows[2].last_active = call.input.now

\* C32: get_active_window returns the foreground window with the title (and
\* process name) and the visibility the OS reports at the time of the call,
\* also when the cache holds an entry with the same handle and older data;
\* it returns None exactly when there is no foreground window.
C32_ActiveWindowIsFresh ==
    call.fn = "get_active_window"
        => LET i == call.input
               a == call.out.active
           IN  IF i.foreground = 0 THEN ~a.some
               ELSE /\ a.some
                    /\ a.handle = i.foreground
                    /\ a.window.title = i.os[i.foreground].title
                    /\ a.window.is_visible = i.os[i.foreground].is_visible

\* C39: track_focus_changes returns the foreground window exactly when there
\* is one and its handle differs from the foreground handle the tracker
\* recorded before the call, and None otherwise, whether or not the
\* foreground window is in the cache.
C39_FocusChangeReported ==
    call.fn = "track_focus_changes"
        => LET i == call.input
               a == call.out.active
               changed == /\ i.foreground # 0
                          /\ i.foreground # i.foreground_window
           IN  /\ a.some <=> changed
               /\ a.some => a.handle = i.foreground

\* C33: once show_overlay or hide_overlay has returned in a task the toggle
\* dispatched, WINDOW_OPERATION_IN_PROGRESS is clear before the task asks
\* for the focus-service lock: no toggle task waits for the focus service
\* with the guard still held, so a toggle press is never dropped because of
\* that wait.
C33_GuardReleasedBeforeFocusService ==
    \A t \in Slots :
        (tasks[t].origin = "toggle" /\ tasks[t].pc = "focus")
            => ~WINDOW_OPERATION_IN_PROGRESS

\* C34: a press handled by the arrow, Escape, number, blocked or screenshot
\* branch leaves WINDOW_OPERATION_IN_PROGRESS as it was.
C34_OtherKeysKeepGuard ==
    [][ (/\ inputs' # inputs
         /\ last'.act \in {"arrow", "escape_hide", "escape_ignored", "number",
                           "blocked", "screenshot"})
            => WINDOW_OPERATION_IN_PROGRESS' = WINDOW_OPERATION_IN_PROGRESS
      ]_vars

\* C35: when hide_overlay runs its unregistrations with no other show or
\* hide in flight, whatever show_overlay and hide_overlay calls came before,
\* none of the overlay's shortcuts (Ctrl+Escape, Escape, the arrows with or
\* without Alt, Alt+1..7, the blockers) is registered afterwards.
C35_HideUnregistersEverything ==
    [][ (\E t \in Slots :
            /\ tasks[t].kind = "hide" /\ tasks[t].pc = "start"
            /\ tasks'[t].kind = "hide" /\ tasks'[t].pc # "start"
            /\ \A u \in Slots \ {t} : tasks[u].kind = "none")
            => registered' \cap ({"Ctrl+Escape", "Escape", "Alt+Arrow", "Arrow"}
                                   \cup NumberShortcuts \cup BlockerShortcuts)
                  = {}
      ]_vars


\* C36: the timer task of a session never touches another session: a step
\* of the timer spawned for session k, taken while a different session is
\* stored, leaves that session (its remaining_seconds, its is_active, its
\* being stored) and notification_state as they were.
C36_TimerTouchesOnlyItsSession ==
    [][\A k \in CallIds :
          (/\ focus_timers.session[k].pc # "none"
           /\ focus_timers'.session[k] # focus_timers.session[k]
           /\ focus_service.current_session # NoSession
           /\ focus_service.current_session.id # k)
          => /\ focus_service'.current_session = focus_service.current_session
             /\ focus_service'.notification_state
                    = focus_service.notification_state]_vars

\* C38: start_focus_mode called while a session is active, and
\* stop_focus_mode called while none is, return an error and leave the
\* stored session, the timer tasks and notification_state as they were.
C38_RefusedCommandChangesNothing ==
    [][(focus_env'.calls # focus_env.calls) =>
          /\ (focus_env'.op = "start_focus_mode" /\ SessionActive(focus_service))
                => /\ focus_env'.result = "err"
                   /\ focus_service' = focus_service
                   /\ focus_timers' = focus_timers
          /\ (focus_env'.op = "stop_focus_mode" /\ ~SessionActive(focus_service))
                => /\ focus_env'.result = "err"
                   /\ focus_service' = focus_service
                   /\ focus_timers' = focus_timers]_vars

\* A start was refused while the session of an earlier start was active and
\* its timer counting.
C38_Witness ==
    /\ focus_env.op = "start_focus_mode"
    /\ focus_env.result = "err"
    /\ SessionActive(focus_service)
    /\ focus_timers.session[focus_service.current_session.id].pc = "loop"


\* C37: a temporary mute with a duration that is neither followed by a
\* later mute nor manually unmuted is eventually restored by its timer
\* (notification_state false), and no mute timer restores notifications
\* while the stored end time is still ahead of the clock.
C37_MuteRestoredOnTime ==
    /\ \A m \in CallIds :
          [](focus_timers.mute[m].pc # "none"
                => <>(\/ ~focus_service.notification_state
                      \/ focus_timers.mute[m].superseded))
    /\ [][\A m \in CallIds :
             (focus_timers.mute[m].pc = "restore"
                  /\ focus_timers'.mute[m].pc = "done")
             => ~(/\ focus_service.temporary_mute_end_time # NoEndTime
                  /\ focus_env.now < focus_service.temporary_mute_end_time)]_vars


\* C40: whatever the sequence of start_notification_blocker and
\* stop_notification_blocker calls, at most one blocker thread is running.
C40_AtMostOneBlockerThread ==
    Cardinality(RunningThreads(blocker)) <= 1

====
